---- MODULE Spec2Model ----
(***************************************************************************)
(* ConureDB storage engine: copy-on-write B-tree (btree/btree.go,          *)
(* btree/node.go), pager with transactions (btree/storage.go, the revision *)
(* with the page-sized header and the fsync at commit), page allocator     *)
(* (NodePool) and the KV facade (db/db.go).                                *)
(*                                                                         *)
(* Keys are the integers 1..NumKeys (byte order = integer order) plus one  *)
(* over-long key; values are the integers 1..NumValues plus one over-long  *)
(* value; KeyLen/ValLen give their byte lengths.  A Go *Node is modelled   *)
(* by the id under which the object sits in Storage.nodeCache; editing the *)
(* object through a pointer is an update of that cache entry.              *)
(***************************************************************************)
EXTENDS Integers, Sequences, FiniteSets, TLC

(***************************************************************************)
(* Bounds of the model                                                     *)
(***************************************************************************)
NumKeys == 3
NumValues == 2
\* calls that begin a transaction, per behaviour, after the load
MaxOps == 2
MaxFaults == 1
MaxReopens == 1
\* Get calls per behaviour that read nodes from the file
MaxGets == 1
\* the loaded workload starts with LoadOps successful Puts of ascending keys
\* and goes on with MaxLoadedOps arbitrary calls
LoadOps == 4
MaxLoadedOps == 2
\* btree.go:11 sets MaxItems = 255; the model scales the item cap down so
\* that splits happen within the bounds.  MinItems follows it as in the code.
MaxItems == 2
\* search/insert/delete recurse once per tree level; deeper than this is
\* the unbounded recursion of a node that lists itself as its child.
MaxDepth == 6
\* Concurrent workload: NumReaders threads call Get, MaxConcGets calls in
\* all, after ConcLoad Puts and around MaxConcOps further Put/Delete calls.
NumReaders == 2
MaxConcGets == 2
ConcLoad == 3
MaxConcOps == 1
\* Sized workload: values of the largest accepted length under the item cap
\* of the code; SizedLoad Puts of such values, then MaxSizedOps calls.
SizedLoad == 3
MaxSizedOps == 2
\* Drain workload: DrainLoad Puts of distinct keys, then as many Deletes
DrainLoad == 3
\* Admin workload: MaxAdminOps Puts and Deletes, with Sync, Reload,
\* SnapshotTo and RestoreFrom called between them
MaxAdminOps == 3
\* calls of Allocate and Free on a NodePool taken on its own
MaxPoolOps == 6
\* threads calling the DB concurrently, and the Storage and NodePool calls
\* one of their DB calls makes at most
NumThreads == 3
MaxLockOps == 2
\* two engines fed the same commands: the keys and the commands of a run
\* that begins with any command
TwinKeys == 3
MaxTwinOps == 4
\* root ids and next ids of the headers written on their own
NumHeaderIDs == 3
\* how far the free lists of those headers go beyond what a header holds
HeaderOver == 2

(***************************************************************************)
(* Program constants                                                       *)
(***************************************************************************)
\* btree.go:11; the sized workload runs with it, the others with the
\* scaled cap.  The cap in force travels with the Storage record as maxItems.
FullMaxItems == 255
MinItems(m) == m.maxItems \div 2
NodeSize == 4096
MaxKeySize == 128
MaxValueSize == 1024
NodeHeaderSize == 16
HeaderSize == NodeSize
LeafNode == 0
InternalNode == 1
\* stands for every 64-bit id beyond the file and beyond the model's integers
\* (such as magic + version * 2^32, the id DeserializeNode finds in the header page)
OutOfRangeID == -1

\* the over-long key and value are named by their lengths
LongKey == MaxKeySize + 1
Values == 1..NumValues
LongValue == MaxValueSize + 1
\* a value of the largest accepted length, named by its length
BigValue == MaxValueSize
\* a value of accepted length that brings a leaf of three items with the
\* largest values to 4098 bytes, 2 more than a page, named by its length
GapValue == MaxValueSize - 53
AllValues == Values \cup {BigValue, GapValue, LongValue}
NilValue == 0

KeyLen(k) == IF k = LongKey THEN LongKey ELSE 3
ValLen(v) == IF v = NilValue THEN 0
             ELSE IF v = LongValue THEN LongValue
             ELSE IF v = BigValue THEN MaxValueSize
             ELSE IF v = GapValue THEN GapValue ELSE 2

Min(S) == CHOOSE x \in S : \A y \in S : x <= y
Max(S) == CHOOSE x \in S : \A y \in S : x >= y
SeqSum(f(_), s) == LET RECURSIVE go(_)
                    go(i) == IF i > Len(s) THEN 0 ELSE f(s[i]) + go(i + 1)
                IN go(1)
\* the value of body with x bound to e, written Bind([x \in {e} |-> body])
Bind(f) == f[CHOOSE x \in DOMAIN f : TRUE]
\* Go slice expression s[lo:hi] on a 0-based slice
Slice(s, lo, hi) == SubSeq(s, lo + 1, hi)

(***************************************************************************)
(* node.go                                                                 *)
(***************************************************************************)
MkItem(k, v) == [Key |-> k, Value |-> v]

NewLeafNode(id) ==
    [id |-> id, nodeType |-> LeafNode, count |-> 0, parent |-> 0,
     items |-> <<>>, children |-> <<>>]

NewInternalNode(id) ==
    [id |-> id, nodeType |-> InternalNode, count |-> 0, parent |-> 0,
     items |-> <<>>, children |-> <<>>]

\* linear scan for the first position whose key is not below item.Key
AddItem(n, item) ==
    LET len == Len(n.items)
        pos == Min({p \in 0..len : p = len \/ ~(n.items[p + 1].Key < item.Key)})
    IN [n EXCEPT !.items = Slice(n.items, 0, pos) \o <<item>> \o Slice(n.items, pos, len),
                 !.count = (n.count + 1) % 65536]

\* result: [err, node]
AddChild(n, pos, child) ==
    IF n.nodeType # InternalNode THEN [err |-> "leaf", node |-> n]
    ELSE IF pos < 0 \/ pos > Len(n.children) THEN [err |-> "position", node |-> n]
    ELSE [err |-> "ok",
          node |-> [n EXCEPT !.children = Slice(n.children, 0, pos) \o <<child>>
                                          \o Slice(n.children, pos, Len(n.children))]]

RemoveItem(n, pos) ==
    IF pos < 0 \/ pos >= Len(n.items) THEN [err |-> "position", node |-> n]
    ELSE [err |-> "ok",
          node |-> [n EXCEPT !.items = Slice(n.items, 0, pos) \o Slice(n.items, pos + 1, Len(n.items)),
                             !.count = (n.count + 65535) % 65536]]

RemoveChild(n, pos) ==
    IF n.nodeType # InternalNode THEN [err |-> "leaf", node |-> n]
    ELSE IF pos < 0 \/ pos >= Len(n.children) THEN [err |-> "position", node |-> n]
    ELSE [err |-> "ok",
          node |-> [n EXCEPT !.children = Slice(n.children, 0, pos)
                                          \o Slice(n.children, pos + 1, Len(n.children))]]

\* binary search for equality; -1 when absent
FindKey(n, key) ==
    LET RECURSIVE bs(_, _)
        bs(low, high) ==
            IF low > high THEN -1
            ELSE LET mid == (low + high) \div 2
                 IN IF n.items[mid + 1].Key = key THEN mid
                    ELSE IF n.items[mid + 1].Key < key THEN bs(mid + 1, high)
                    ELSE bs(low, mid - 1)
    IN bs(0, Len(n.items) - 1)

\* binary search for the first separator above key
FindChildPos(n, key) ==
    LET RECURSIVE bs(_, _)
        bs(low, high) ==
            IF low >= high THEN low
            ELSE LET mid == (low + high) \div 2
                 IN IF key < n.items[mid + 1].Key THEN bs(low, mid)
                    ELSE bs(mid + 1, high)
    IN IF n.nodeType # InternalNode THEN -1 ELSE bs(0, Len(n.items))

ItemBytes(it) == 2 + KeyLen(it.Key) + 4 + ValLen(it.Value)

\* bytes written by Serialize before padding: id 8, type 1, count 2, parent 8
SerializedSize(n) ==
    19 + SeqSum(ItemBytes, n.items)
       + (IF n.nodeType = InternalNode THEN 8 * Len(n.children) ELSE 0)

\* the page as written: the fields in file order, zero padding implied
Serialize(n) ==
    IF SerializedSize(n) > NodeSize THEN [err |-> "node size", page |-> n]
    ELSE [err |-> "ok",
          page |-> [n EXCEPT !.children = IF n.nodeType = InternalNode THEN n.children ELSE <<>>]]

\* a page of zero bytes (a hole of the file)
ZeroPage == NewLeafNode(0)

\* reads count items, then count+1 child ids for an internal node; child ids
\* past the written ones come from the zero padding, or hit the end of the page
DeserializeNode(page) ==
    IF page.count # Len(page.items) THEN [err |-> "misaligned", node |-> page]
    ELSE IF page.nodeType # InternalNode
    THEN [err |-> "ok", node |-> [page EXCEPT !.children = <<>>]]
    ELSE LET need == page.count + 1
             have == Len(page.children)
             itemsEnd == 19 + SeqSum(ItemBytes, page.items)
         IN IF itemsEnd + 8 * need > NodeSize THEN [err |-> "EOF", node |-> page]
            ELSE [err |-> "ok",
                  node |-> [page EXCEPT !.children =
                              [i \in 1..need |-> IF i <= have THEN page.children[i] ELSE 0]]]

(***************************************************************************)
(* NodePool                                                                *)
(***************************************************************************)
\* Allocate taking the oldest freed id instead of the newest
AllocateOldest(m) ==
    IF Len(m.freeNodeIDs) > 0
    THEN [id |-> m.freeNodeIDs[1],
          m |-> [m EXCEPT !.freeNodeIDs = Slice(@, 1, Len(@))]]
    ELSE [id |-> m.nextNodeID, m |-> [m EXCEPT !.nextNodeID = @ + 1]]

\* result: [id, m]
Allocate(m) ==
    IF Len(m.freeNodeIDs) > 0
    THEN [id |-> m.freeNodeIDs[Len(m.freeNodeIDs)],
          m |-> [m EXCEPT !.freeNodeIDs = Slice(@, 0, Len(@) - 1)]]
    ELSE [id |-> m.nextNodeID, m |-> [m EXCEPT !.nextNodeID = @ + 1]]

Free(m, nodeID) ==
    IF nodeID = 0 THEN m ELSE [m EXCEPT !.freeNodeIDs = Append(@, nodeID)]

(***************************************************************************)
(* Storage.  m is the Storage object together with the contents of its     *)
(* file: nodeCache, rootNodeID, nextNodeID, freeNodeIDs, dirtyNodes,       *)
(* transaction, originalRoot, file = [header, pages].                      *)
(***************************************************************************)
MaxFreeInHeader == (HeaderSize - 28) \div 8

Take(s, n) == IF Len(s) <= n THEN s ELSE SubSeq(s, 1, n)

CacheSet(cache, id, node) == [i \in DOMAIN cache \cup {id} |-> IF i = id THEN node ELSE cache[i]]

CacheDel(cache, id) == [i \in DOMAIN cache \ {id} |-> cache[i]]

\* writeHeader keeping the newest free ids instead of the oldest
writeHeaderNewest(m) ==
    [m EXCEPT !.file.header = [rootNodeID |-> m.rootNodeID,
                               nextNodeID |-> m.nextNodeID,
                               freeNodeIDs |-> IF Len(m.freeNodeIDs) <= MaxFreeInHeader
                                               THEN m.freeNodeIDs
                                               ELSE Slice(m.freeNodeIDs,
                                                          Len(m.freeNodeIDs) - MaxFreeInHeader,
                                                          Len(m.freeNodeIDs))]]

\* the header page: root, next id and the free ids that fit
writeHeader(m) ==
    [m EXCEPT !.file.header = [rootNodeID |-> m.rootNodeID,
                               nextNodeID |-> m.nextNodeID,
                               freeNodeIDs |-> Take(m.freeNodeIDs, MaxFreeInHeader)]]

\* the header page read as a node page (node id 0 maps to file offset 0):
\* byte 8 is the node type, bytes 9-10 the count, both taken from the root id
HeaderAsPage(h) ==
    [id |-> OutOfRangeID,
     nodeType |-> h.rootNodeID % 256,
     count |-> (h.rootNodeID \div 256) % 65536,
     parent |-> OutOfRangeID,
     items |-> <<>>,
     children |-> IF Len(h.freeNodeIDs) = 0 THEN <<0>> ELSE <<OutOfRangeID>>]

LastPage(f) == IF DOMAIN f.pages = {} THEN 0 ELSE Max(DOMAIN f.pages)

\* result: [err, node]
readNode(m, nodeID) ==
    IF nodeID = 0 THEN DeserializeNode(HeaderAsPage(m.file.header))
    ELSE IF nodeID < 0 \/ nodeID > LastPage(m.file) THEN [err |-> "short read", node |-> ZeroPage]
    ELSE IF nodeID \in DOMAIN m.file.pages THEN DeserializeNode(m.file.pages[nodeID])
    ELSE DeserializeNode(ZeroPage)

\* result: [err, m]
writeNode(m, node) ==
    Bind([ser \in {Serialize(node)} |->
    IF ser.err # "ok" THEN [err |-> ser.err, m |-> m]
       ELSE [err |-> "ok", m |-> [m EXCEPT !.file.pages = CacheSet(@, node.id, ser.page)]]])

\* result: [err, m, ref]; ref is the cache key of the returned node.
\* GetNode that marks the node it read from the file as dirty
GetNodeMarking(m, nodeID, rd) ==
    IF nodeID \in DOMAIN m.nodeCache THEN [err |-> "ok", m |-> m, ref |-> nodeID]
    ELSE IF m.fileClosed THEN [err |-> "file already closed", m |-> m, ref |-> nodeID]
    ELSE IF ~rd THEN [err |-> "io", m |-> m, ref |-> nodeID]
    ELSE Bind([r \in {readNode(m, nodeID)} |->
         IF r.err # "ok" THEN [err |-> r.err, m |-> m, ref |-> nodeID]
            ELSE [err |-> "ok", ref |-> nodeID,
                  m |-> [m EXCEPT !.nodeCache = CacheSet(@, nodeID, r.node),
                                  !.dirtyNodes = @ \cup {nodeID}]]])

\* rd = FALSE makes the disk read of a cache miss fail; so does a file
\* that Storage.Close has closed.
GetNode(m, nodeID, rd) ==
    IF nodeID \in DOMAIN m.nodeCache THEN [err |-> "ok", m |-> m, ref |-> nodeID]
    ELSE IF m.fileClosed THEN [err |-> "file already closed", m |-> m, ref |-> nodeID]
    ELSE IF ~rd THEN [err |-> "io", m |-> m, ref |-> nodeID]
    ELSE Bind([r \in {readNode(m, nodeID)} |->
         IF r.err # "ok" THEN [err |-> r.err, m |-> m, ref |-> nodeID]
            ELSE [err |-> "ok", ref |-> nodeID,
                  m |-> [m EXCEPT !.nodeCache = CacheSet(@, nodeID, r.node)]]])

GetRootNode(m, rd) == GetNode(m, m.rootNodeID, rd)

\* SetRootNode that writes the header at once, inside a transaction too
SetRootNodeEager(m, node) ==
    [err |-> "ok",
     m |-> writeHeader([m EXCEPT !.rootNodeID = node.id,
                                 !.nodeCache = CacheSet(@, node.id, node),
                                 !.dirtyNodes = @ \cup {node.id}])]

\* result: [err, m]
SetRootNode(m, node) ==
    Bind([m1 \in {[m EXCEPT !.rootNodeID = node.id,
                        !.nodeCache = CacheSet(@, node.id, node),
                        !.dirtyNodes = @ \cup {node.id}]} |->
    IF m.transaction THEN [err |-> "ok", m |-> m1]
       ELSE [err |-> "ok", m |-> writeHeader(m1)]])

BeginTransaction(m) ==
    IF m.transaction THEN [err |-> "transaction already in progress", m |-> m]
    ELSE [err |-> "ok",
          m |-> [m EXCEPT !.transaction = TRUE, !.originalRoot = m.rootNodeID, !.dirtyNodes = {}]]

abortTransaction(m) ==
    IF ~m.transaction THEN m
    ELSE [m EXCEPT !.rootNodeID = m.originalRoot, !.transaction = FALSE, !.dirtyNodes = {}]

\* PutNode that caches the node without marking it dirty
PutNodeUnmarked(m, node) ==
    [err |-> "ok", m |-> [m EXCEPT !.nodeCache = CacheSet(@, node.id, node)]]

\* result: [err, m]
PutNode(m, node) ==
    IF m.transaction
    THEN [err |-> "ok",
          m |-> [m EXCEPT !.dirtyNodes = @ \cup {node.id},
                          !.nodeCache = CacheSet(@, node.id, node)]]
    ELSE Bind([w \in {writeNode(m, node)} |->
         IF w.err # "ok" THEN w
            ELSE [err |-> "ok", m |-> [w.m EXCEPT !.nodeCache = CacheSet(@, node.id, node)]]])

\* result: [err, m, ref]
CloneNode(m, node) ==
    Bind([a \in {Allocate(m)} |->
    Bind([newNode \in {[id |-> a.id, nodeType |-> IF node.nodeType = LeafNode THEN LeafNode ELSE InternalNode,
                    count |-> node.count, parent |-> node.parent, items |-> node.items,
                    children |-> IF node.nodeType = InternalNode THEN node.children ELSE <<>>]} |->
    Bind([m1 \in {[a.m EXCEPT !.nodeCache = CacheSet(@, a.id, newNode)]} |->
    IF m.transaction
       THEN [err |-> "ok", ref |-> a.id, m |-> [m1 EXCEPT !.dirtyNodes = @ \cup {a.id}]]
       ELSE Bind([w \in {writeNode(m1, newNode)} |->
            [err |-> w.err, ref |-> a.id, m |-> w.m]])])])])

DeleteNode(m, nodeID) == Free([m EXCEPT !.nodeCache = CacheDel(@, nodeID)], nodeID)

(***************************************************************************)
(* btree.go: search and insert                                             *)
(***************************************************************************)
NoItem == MkItem(0, NilValue)

\* withItem = FALSE is the nil item; withNewChild >= 0 counts one more child
estimateNodeSize(node, withItem, item, withNewChild) ==
    NodeHeaderSize + SeqSum(ItemBytes, node.items)
      + (IF withItem THEN ItemBytes(item) ELSE 0)
      + (IF node.nodeType = InternalNode
         THEN 8 * (Len(node.children) + (IF withNewChild >= 0 THEN 1 ELSE 0))
         ELSE 0)

\* first item with the key, by linear scan; 0 when absent (1-based index)
LeafScan(node, key) ==
    Bind([hits \in {{i \in 1..Len(node.items) : node.items[i].Key = key}} |->
    IF hits = {} THEN 0 ELSE Min(hits)])

\* result: [err, m, val]; err is "ok", "ErrKeyNotFound", "panic" (index out
\* of range, unbounded recursion) or a read error
RECURSIVE search(_, _, _, _, _)
search(m, ref, key, rd, fuel) ==
    Bind([node \in {m.nodeCache[ref]} |->
    IF fuel = 0 THEN [err |-> "panic", m |-> m, val |-> NilValue]
       ELSE IF node.nodeType = LeafNode
       THEN Bind([i \in {LeafScan(node, key)} |->
            IF i = 0 THEN [err |-> "ErrKeyNotFound", m |-> m, val |-> NilValue]
               ELSE [err |-> "ok", m |-> m, val |-> node.items[i].Value]])
       ELSE Bind([childPos \in {FindChildPos(node, key)} |->
            IF childPos < 0 \/ childPos >= Len(node.children)
               THEN [err |-> "panic", m |-> m, val |-> NilValue]
               ELSE Bind([g \in {GetNode(m, node.children[childPos + 1], rd)} |->
                    IF g.err # "ok" THEN [err |-> g.err, m |-> g.m, val |-> NilValue]
                       ELSE search(g.m, g.ref, key, rd, fuel - 1)])])])

\* BTree.Get; result: [err, m, val]
Get(m, key, rd) ==
    IF KeyLen(key) > MaxKeySize THEN [err |-> "ErrKeyTooLarge", m |-> m, val |-> NilValue]
    ELSE Bind([g \in {GetRootNode(m, rd)} |->
         IF g.err # "ok" THEN [err |-> g.err, m |-> g.m, val |-> NilValue]
            ELSE search(g.m, g.ref, key, rd, MaxDepth)])

\* result: [err, m]
setParent(m, childID, parentID, rd) ==
    Bind([g \in {GetNode(m, childID, rd)} |->
    IF g.err # "ok" THEN [err |-> g.err, m |-> g.m]
       ELSE Bind([c \in {CloneNode(g.m, g.m.nodeCache[g.ref])} |->
            IF c.err # "ok" THEN [err |-> c.err, m |-> c.m]
               ELSE PutNode(c.m, [c.m.nodeCache[c.ref] EXCEPT !.parent = parentID])])])

\* result: [err, m, ret, split]; ret is the cache key of the returned node
Ret(err, m, ret, split) == [err |-> err, m |-> m, ret |-> ret, split |-> split]

\* node is the object at cache key ref; it is cut in place, the upper half
\* goes to a freshly allocated leaf, which is returned
splitLeaf(m, ref) ==
    Bind([node \in {m.nodeCache[ref]} |->
    Bind([a \in {Allocate(m)} |->
    Bind([mid \in {Len(node.items) \div 2} |->
    Bind([newNode \in {[NewLeafNode(a.id) EXCEPT !.items = Slice(node.items, mid, Len(node.items)),
                                             !.count = (Len(node.items) - mid) % 65536,
                                             !.parent = node.parent]} |->
    Bind([node1 \in {[node EXCEPT !.items = Slice(node.items, 0, mid), !.count = mid % 65536]} |->
    Bind([m1 \in {[a.m EXCEPT !.nodeCache = CacheSet(@, ref, node1)]} |->
    Bind([p1 \in {PutNode(m1, node1)} |->
    IF p1.err # "ok" THEN Ret(p1.err, p1.m, 0, FALSE)
       ELSE Bind([p2 \in {PutNode(p1.m, newNode)} |->
            IF p2.err # "ok" THEN Ret(p2.err, p2.m, 0, FALSE)
               ELSE Ret("ok", p2.m, newNode.id, TRUE)])])])])])])])])

\* the setParent loop over the children moved to the new node
RECURSIVE setParentAll(_, _, _, _)
setParentAll(m, ids, parentID, rd) ==
    IF ids = <<>> THEN [err |-> "ok", m |-> m]
    ELSE Bind([r \in {setParent(m, Head(ids), parentID, rd)} |->
         IF r.err # "ok" THEN r ELSE setParentAll(r.m, Tail(ids), parentID, rd)])

\* the returned node is the cached new node, to which the promoted item is
\* prepended after it was saved
splitInternal(m, ref, rd) ==
    Bind([node \in {m.nodeCache[ref]} |->
    Bind([a \in {Allocate(m)} |->
    Bind([len \in {Len(node.items)} |->
    Bind([mid \in {len \div 2} |->
    IF mid + 1 > len \/ mid + 1 > Len(node.children) THEN Ret("panic", a.m, 0, FALSE)
       ELSE
       Bind([splitItem \in {node.items[mid + 1]} |->
       Bind([newNode \in {[NewInternalNode(a.id) EXCEPT
                         !.items = Slice(node.items, mid + 1, len),
                         !.count = (len - (mid + 1)) % 65536,
                         !.children = Slice(node.children, mid + 1, Len(node.children))]} |->
       Bind([node1 \in {[node EXCEPT !.items = Slice(node.items, 0, mid),
                                 !.count = mid % 65536,
                                 !.children = Slice(node.children, 0, mid + 1)]} |->
       Bind([m1 \in {[a.m EXCEPT !.nodeCache = CacheSet(@, ref, node1)]} |->
       Bind([sp \in {setParentAll(m1, newNode.children, newNode.id, rd)} |->
       IF sp.err # "ok" THEN Ret(sp.err, sp.m, 0, FALSE)
          ELSE Bind([p1 \in {PutNode(sp.m, sp.m.nodeCache[ref])} |->
               IF p1.err # "ok" THEN Ret(p1.err, p1.m, 0, FALSE)
                  ELSE Bind([p2 \in {PutNode(p1.m, newNode)} |->
                       IF p2.err # "ok" THEN Ret(p2.err, p2.m, 0, FALSE)
                          ELSE Bind([newNode2 \in {[newNode EXCEPT
                                                  !.items = <<splitItem>> \o newNode.items,
                                                  !.count = (Len(newNode.items) + 1) % 65536]} |->
                               Ret("ok",
                                      [p2.m EXCEPT !.nodeCache = CacheSet(@, newNode.id, newNode2)],
                                      newNode.id, TRUE)])])])])])])])])])])])])

\* leaf branch of insert (btree.go:201-250)
insertLeaf(m, ref, key, value) ==
    Bind([node \in {m.nodeCache[ref]} |->
    Bind([pos \in {FindKey(node, key)} |->
    Bind([candidate \in {MkItem(key, value)} |->
    IF pos >= 0
       THEN \* the value is replaced in the node object itself, no clone
            Bind([node1 \in {[node EXCEPT !.items[pos + 1].Value = value]} |->
            Bind([p \in {PutNode([m EXCEPT !.nodeCache = CacheSet(@, ref, node1)], node1)} |->
            Ret(p.err, p.m, ref, FALSE)])])
       ELSE
       Bind([c \in {CloneNode(m, node)} |->
       IF c.err # "ok" THEN Ret(c.err, c.m, 0, FALSE)
          ELSE
          Bind([nodeCopy \in {c.m.nodeCache[c.ref]} |->
          IF estimateNodeSize(nodeCopy, TRUE, candidate, -1) > NodeSize
                \/ Len(nodeCopy.items) + 1 > m.maxItems
             THEN \* split first, then insert into the matching half
                  Bind([sl \in {splitLeaf(c.m, c.ref)} |->
                  IF sl.err # "ok" THEN sl
                     ELSE Bind([newSibling \in {sl.m.nodeCache[sl.ret]} |->
                          Bind([left \in {sl.m.nodeCache[c.ref]} |->
                          IF Len(newSibling.items) = 0 THEN Ret("panic", sl.m, 0, FALSE)
                             ELSE IF key < newSibling.items[1].Key
                             THEN Bind([left1 \in {AddItem(left, candidate)} |->
                                  Bind([p \in {PutNode([sl.m EXCEPT !.nodeCache = CacheSet(@, c.ref, left1)], left1)} |->
                                  IF p.err # "ok" THEN Ret(p.err, p.m, 0, FALSE)
                                     ELSE Ret("ok", p.m, sl.ret, TRUE)])])
                             ELSE Bind([sib1 \in {AddItem(newSibling, candidate)} |->
                                  Bind([p \in {PutNode([sl.m EXCEPT !.nodeCache = CacheSet(@, sl.ret, sib1)], sib1)} |->
                                  IF p.err # "ok" THEN Ret(p.err, p.m, 0, FALSE)
                                     ELSE Ret("ok", p.m, sl.ret, TRUE)])])])])])
             ELSE Bind([added \in {AddItem(nodeCopy, candidate)} |->
                  Bind([m2 \in {[c.m EXCEPT !.nodeCache = CacheSet(@, c.ref, added)]} |->
                  IF Len(added.items) > m.maxItems
                        \/ estimateNodeSize(added, FALSE, NoItem, -1) > NodeSize
                     THEN splitLeaf(m2, c.ref)
                     ELSE Ret("ok", m2, c.ref, FALSE)])])])])])])])

\* an internal branch that hands the result of the recursive call upwards
\* as it is, without a copy of this node
insertInternalPassThrough(ref, childPos, cref, r, rd) == r

\* internal branch of insert after the recursive call returned without
\* error (btree.go:266-323).  ref: this node, cref: the child descended
\* into, r: the result of the recursive call
insertInternal(ref, childPos, cref, r, rd) ==
    Bind([m \in {r.m} |->
    Bind([node \in {m.nodeCache[ref]} |->
    Bind([child \in {m.nodeCache[cref]} |->
    Bind([newChild \in {m.nodeCache[r.ret]} |->
    IF ~r.split
       THEN IF newChild.id # child.id
            THEN Bind([c \in {CloneNode(m, node)} |->
                 IF c.err # "ok" THEN Ret(c.err, c.m, 0, FALSE)
                    ELSE Bind([nodeCopy \in {[c.m.nodeCache[c.ref] EXCEPT !.children[childPos + 1] = newChild.id]} |->
                         Bind([m2 \in {[c.m EXCEPT !.nodeCache = CacheSet(@, c.ref, nodeCopy)]} |->
                         Bind([sp \in {setParent(m2, newChild.id, nodeCopy.id, rd)} |->
                         IF sp.err # "ok" THEN Ret(sp.err, sp.m, 0, FALSE)
                            ELSE Ret("ok", sp.m, c.ref, FALSE)])])])])
            ELSE Ret("ok", m, ref, FALSE)
       ELSE
       Bind([c \in {CloneNode(m, node)} |->
       IF c.err # "ok" THEN Ret(c.err, c.m, 0, FALSE)
          ELSE IF Len(newChild.items) = 0 THEN Ret("panic", c.m, 0, FALSE)
          ELSE
          Bind([nodeCopy \in {c.m.nodeCache[c.ref]} |->
          Bind([splitKey \in {newChild.items[1].Key} |->
          Bind([sepItem \in {MkItem(splitKey, NilValue)} |->
          IF estimateNodeSize(nodeCopy, TRUE, sepItem, childPos + 1) > NodeSize
                \/ Len(nodeCopy.items) + 1 > m.maxItems
             THEN \* the node is split and the promoted node returned; the
                  \* separator and the new child are not inserted
                  splitInternal(c.m, c.ref, rd)
             ELSE Bind([n1 \in {AddItem(nodeCopy, sepItem)} |->
                  Bind([ac \in {AddChild(n1, childPos + 1, newChild.id)} |->
                  Bind([m2 \in {[c.m EXCEPT !.nodeCache = CacheSet(@, c.ref, ac.node)]} |->
                  IF ac.err # "ok" THEN Ret(ac.err, [c.m EXCEPT !.nodeCache = CacheSet(@, c.ref, n1)], 0, FALSE)
                     ELSE Bind([sp \in {setParent(m2, newChild.id, nodeCopy.id, rd)} |->
                          IF sp.err # "ok" THEN Ret(sp.err, sp.m, 0, FALSE)
                             ELSE IF Len(ac.node.items) > m.maxItems
                                     \/ estimateNodeSize(ac.node, FALSE, NoItem, -1) > NodeSize
                             THEN splitInternal(sp.m, c.ref, rd)
                             ELSE Ret("ok", sp.m, c.ref, FALSE)])])])])])])])])])])])])

RECURSIVE insert(_, _, _, _, _, _)
insert(m, ref, key, value, rd, fuel) ==
    Bind([node \in {m.nodeCache[ref]} |->
    IF fuel = 0 THEN Ret("panic", m, 0, FALSE)
       ELSE IF node.nodeType = LeafNode THEN insertLeaf(m, ref, key, value)
       ELSE Bind([childPos \in {FindChildPos(node, key)} |->
            IF childPos < 0 \/ childPos >= Len(node.children) THEN Ret("panic", m, 0, FALSE)
               ELSE Bind([g \in {GetNode(m, node.children[childPos + 1], rd)} |->
                    IF g.err # "ok" THEN Ret(g.err, g.m, 0, FALSE)
                       ELSE Bind([r \in {insert(g.m, g.ref, key, value, rd, fuel - 1)} |->
                            IF r.err # "ok" THEN r
                               ELSE insertInternal(ref, childPos, g.ref, r, rd)])])])])

\* result of the part of an operation that precedes CommitTransaction:
\* [err, m, commit]; commit = TRUE when the operation goes on to commit
Pre(err, m, commit) == [err |-> err, m |-> m, commit |-> commit]

\* a Go panic unwinds through Put/Delete: the deferred unlocks run,
\* abortTransaction does not
Errored(err, m) == IF err = "panic" THEN Pre(err, m, FALSE) ELSE Pre(err, abortTransaction(m), FALSE)

\* a Put that takes the lock and begins the transaction before it looks at
\* the lengths
PutPreBeginFirst(m, key, value, rd) ==
    Pre(IF KeyLen(key) > MaxKeySize THEN "ErrKeyTooLarge" ELSE "ErrValueTooLarge",
        BeginTransaction(m).m, FALSE)

\* BTree.Put up to, not including, CommitTransaction (btree.go:99-172)
PutPre(m, key, value, rd) ==
    IF KeyLen(key) > MaxKeySize THEN Pre("ErrKeyTooLarge", m, FALSE)
    ELSE IF ValLen(value) > MaxValueSize THEN Pre("ErrValueTooLarge", m, FALSE)
    ELSE
    Bind([b \in {BeginTransaction(m)} |->
    IF b.err # "ok" THEN Pre(b.err, b.m, FALSE)
       ELSE
       Bind([g \in {GetRootNode(b.m, rd)} |->
       IF g.err # "ok" THEN Errored(g.err, g.m)
          ELSE
          Bind([r \in {insert(g.m, g.ref, key, value, rd, MaxDepth)} |->
          IF r.err # "ok" THEN Errored(r.err, r.m)
             ELSE
             Bind([root \in {r.m.nodeCache[g.ref]} |->
             Bind([newRoot \in {r.m.nodeCache[r.ret]} |->
             IF r.split
                THEN Bind([a \in {Allocate(r.m)} |->
                     Bind([c0 \in {AddChild(NewInternalNode(a.id), 0, root.id)} |->
                     Bind([c1 \in {AddChild(c0.node, 1, newRoot.id)} |->
                     IF Len(newRoot.items) = 0 THEN Pre("panic", a.m, FALSE)
                        ELSE
                        Bind([rootNode \in {AddItem(c1.node, MkItem(newRoot.items[1].Key, NilValue))} |->
                        Bind([sp0 \in {setParent(a.m, root.id, rootNode.id, rd)} |->
                        IF sp0.err # "ok" THEN Errored(sp0.err, sp0.m)
                           ELSE Bind([sp1 \in {setParent(sp0.m, newRoot.id, rootNode.id, rd)} |->
                                IF sp1.err # "ok" THEN Errored(sp1.err, sp1.m)
                                   ELSE Bind([sr \in {SetRootNode(sp1.m, rootNode)} |->
                                        IF sr.err # "ok" THEN Errored(sr.err, sr.m)
                                           ELSE Pre("ok", sr.m, TRUE)])])])])])])])
                ELSE IF newRoot.id # root.id
                THEN Bind([sr \in {SetRootNode(r.m, newRoot)} |->
                     IF sr.err # "ok" THEN Errored(sr.err, sr.m)
                        ELSE Pre("ok", sr.m, TRUE)])
                ELSE Pre("ok", r.m, TRUE)])])])])])

(***************************************************************************)
(* btree.go: delete and rebalance                                          *)
(***************************************************************************)
\* result: [err, m, ret]
DRet(err, m, ret) == [err |-> err, m |-> m, ret |-> ret]

\* index of the first child id equal to id, 0-based; -1 when absent
ChildIndex(parent, id) ==
    Bind([hits \in {{i \in 1..Len(parent.children) : parent.children[i] = id}} |->
    IF hits = {} THEN -1 ELSE Min(hits) - 1])

\* three clones in the order node, sibling, parent; result: [err, m, n, s, p]
CloneThree(m, nref, sref, pref) ==
    Bind([c1 \in {CloneNode(m, m.nodeCache[nref])} |->
    Bind([c2 \in {CloneNode(c1.m, c1.m.nodeCache[sref])} |->
    Bind([c3 \in {CloneNode(c2.m, c2.m.nodeCache[pref])} |->
    IF c1.err # "ok" THEN [err |-> c1.err, m |-> c1.m, n |-> 0, s |-> 0, p |-> 0]
       ELSE IF c2.err # "ok" THEN [err |-> c2.err, m |-> c2.m, n |-> 0, s |-> 0, p |-> 0]
       ELSE [err |-> c3.err, m |-> c3.m, n |-> c1.ref, s |-> c2.ref, p |-> c3.ref]])])])

\* PutNode of three edited nodes in the given order, returning the third
PutThree(m, a, b, c) ==
    Bind([p1 \in {PutNode(m, a)} |->
    Bind([p2 \in {PutNode(p1.m, b)} |->
    Bind([p3 \in {PutNode(p2.m, c)} |->
    IF p1.err # "ok" THEN DRet(p1.err, p1.m, 0)
       ELSE IF p2.err # "ok" THEN DRet(p2.err, p2.m, 0)
       ELSE DRet(p3.err, p3.m, c.id)])])])

\* PutNode of two edited nodes, then DeleteNode; returns the second node
PutTwoDelete(m, a, b, gone) ==
    Bind([p1 \in {PutNode(m, a)} |->
    Bind([p2 \in {PutNode(p1.m, b)} |->
    IF p1.err # "ok" THEN DRet(p1.err, p1.m, 0)
       ELSE IF p2.err # "ok" THEN DRet(p2.err, p2.m, 0)
       ELSE DRet("ok", DeleteNode(p2.m, gone), b.id)])])

\* btree.go:536-573 and 584-621: borrow one item from a leaf sibling
\* (fromLeft: its last item, else its first) and rewrite the parent key
borrowLeaf(m, nref, pref, sref, pos, fromLeft) ==
    Bind([c \in {CloneThree(m, nref, sref, pref)} |->
    IF c.err # "ok" THEN DRet(c.err, c.m, 0)
       ELSE
       Bind([nodeCopy \in {c.m.nodeCache[c.n]} |->
       Bind([sibCopy \in {c.m.nodeCache[c.s]} |->
       Bind([parentCopy \in {c.m.nodeCache[c.p]} |->
       Bind([take \in {IF fromLeft THEN sibCopy.count - 1 ELSE 0} |->
       Bind([sepPos \in {IF fromLeft THEN pos - 1 ELSE pos} |->
       IF take < 0 \/ take >= Len(sibCopy.items) THEN DRet("panic", c.m, 0)
          ELSE
          Bind([node1 \in {AddItem(nodeCopy, sibCopy.items[take + 1])} |->
          Bind([rm \in {RemoveItem(sibCopy, take)} |->
          Bind([newKey \in {IF fromLeft THEN node1.items[1].Key
                        ELSE IF Len(rm.node.items) = 0 THEN 0 ELSE rm.node.items[1].Key} |->
          Bind([mEdited \in {[c.m EXCEPT !.nodeCache = CacheSet(CacheSet(@, c.n, node1), c.s, rm.node)]} |->
          IF rm.err # "ok" THEN DRet(rm.err, mEdited, 0)
             ELSE IF sepPos >= Len(parentCopy.items) \/ (~fromLeft /\ Len(rm.node.items) = 0)
             THEN DRet("panic", mEdited, 0)
             ELSE Bind([parent1 \in {[parentCopy EXCEPT !.items[sepPos + 1].Key = newKey]} |->
                  PutThree([mEdited EXCEPT !.nodeCache = CacheSet(@, c.p, parent1)],
                              node1, rm.node, parent1)])])])])])])])])])])])

\* btree.go:625-717: merge a leaf with its left sibling, else with its right
mergeLeaf(m, nref, pref, pos, rd) ==
    Bind([node \in {m.nodeCache[nref]} |->
    Bind([parent \in {m.nodeCache[pref]} |->
    Bind([sibPos \in {IF pos > 0 THEN pos - 1 ELSE pos + 1} |->
    IF sibPos >= Len(parent.children) THEN DRet("panic", m, 0)
       ELSE
       Bind([g \in {GetNode(m, parent.children[sibPos + 1], rd)} |->
       IF g.err # "ok" THEN DRet(g.err, g.m, 0)
          ELSE
          Bind([sibling \in {g.m.nodeCache[g.ref]} |->
              \* the clone that survives: the left sibling, or the node itself
          Bind([c1 \in {CloneNode(g.m, IF pos > 0 THEN sibling ELSE node)} |->
          Bind([keepCopy \in {c1.m.nodeCache[c1.ref]} |->
          Bind([merged \in {[keepCopy EXCEPT
                           !.items = @ \o (IF pos > 0 THEN node.items ELSE sibling.items),
                           !.count = (Len(keepCopy.items)
                                      + Len(IF pos > 0 THEN node.items ELSE sibling.items)) % 65536]} |->
          Bind([m1 \in {[c1.m EXCEPT !.nodeCache = CacheSet(@, c1.ref, merged)]} |->
          Bind([c2 \in {CloneNode(m1, parent)} |->
          IF c1.err # "ok" THEN DRet(c1.err, c1.m, 0)
             ELSE IF c2.err # "ok" THEN DRet(c2.err, c2.m, 0)
             ELSE
             Bind([parentCopy \in {c2.m.nodeCache[c2.ref]} |->
             Bind([ri \in {RemoveItem(parentCopy, IF pos > 0 THEN pos - 1 ELSE pos)} |->
             Bind([rc \in {RemoveChild(ri.node, IF pos > 0 THEN pos ELSE pos + 1)} |->
             IF ri.err # "ok" THEN DRet(ri.err, c2.m, 0)
                ELSE IF rc.err # "ok"
                THEN DRet(rc.err, [c2.m EXCEPT !.nodeCache = CacheSet(@, c2.ref, ri.node)], 0)
                ELSE PutTwoDelete([c2.m EXCEPT !.nodeCache = CacheSet(@, c2.ref, rc.node)],
                                  merged, rc.node,
                                  IF pos > 0 THEN node.id ELSE sibling.id)])])])])])])])])])])])])])

\* btree.go:515-718; nref: the under-full leaf, pref: its parent
rebalanceLeaf(m, nref, pref, rd) ==
    Bind([node \in {m.nodeCache[nref]} |->
    Bind([parent \in {m.nodeCache[pref]} |->
    Bind([pos \in {ChildIndex(parent, node.id)} |->
    Bind([gl \in {IF pos > 0 THEN GetNode(m, parent.children[pos], rd)
              ELSE [err |-> "ok", m |-> m, ref |-> 0]} |->
    Bind([lendL \in {pos > 0 /\ gl.err = "ok" /\ gl.m.nodeCache[gl.ref].count > MinItems(m)} |->
    Bind([gr \in {IF pos < Len(parent.children) - 1 THEN GetNode(gl.m, parent.children[pos + 2], rd)
              ELSE [err |-> "ok", m |-> gl.m, ref |-> 0]} |->
    Bind([lendR \in {pos < Len(parent.children) - 1 /\ gr.err = "ok"
                 /\ gr.m.nodeCache[gr.ref].count > MinItems(m)} |->
    IF pos < 0 THEN DRet("node not found in parent", m, 0)
       ELSE IF gl.err # "ok" THEN DRet(gl.err, gl.m, 0)
       ELSE IF lendL THEN borrowLeaf(gl.m, nref, pref, gl.ref, pos, TRUE)
       ELSE IF gr.err # "ok" THEN DRet(gr.err, gr.m, 0)
       ELSE IF lendR THEN borrowLeaf(gr.m, nref, pref, gr.ref, pos, FALSE)
       ELSE mergeLeaf(gr.m, nref, pref, pos, rd)])])])])])])])

\* btree.go:742-789 and 800-847: rotate one separator and one child from an
\* internal sibling through the parent
borrowInternal(m, nref, pref, sref, pos, fromLeft, rd) ==
    Bind([c \in {CloneThree(m, nref, sref, pref)} |->
    IF c.err # "ok" THEN DRet(c.err, c.m, 0)
       ELSE
       Bind([nodeCopy \in {c.m.nodeCache[c.n]} |->
       Bind([sibCopy \in {c.m.nodeCache[c.s]} |->
       Bind([parentCopy \in {c.m.nodeCache[c.p]} |->
       Bind([sepPos \in {IF fromLeft THEN pos - 1 ELSE pos} |->
       Bind([take \in {IF fromLeft THEN sibCopy.count - 1 ELSE 0} |->
       IF sepPos >= Len(parentCopy.items) \/ take < 0 \/ take >= Len(sibCopy.items)
             \/ Len(sibCopy.children) = 0
          THEN DRet("panic", c.m, 0)
          ELSE
          Bind([down \in {MkItem(parentCopy.items[sepPos + 1].Key, NilValue)} |->
          Bind([childID \in {IF fromLeft THEN sibCopy.children[Len(sibCopy.children)]
                         ELSE sibCopy.children[1]} |->
          Bind([node1 \in {[nodeCopy EXCEPT
                          !.items = IF fromLeft THEN <<down>> \o @ ELSE Append(@, down),
                          !.count = (Len(nodeCopy.items) + 1) % 65536,
                          !.children = IF fromLeft THEN <<childID>> \o @ ELSE Append(@, childID)]} |->
          Bind([parent1 \in {[parentCopy EXCEPT !.items[sepPos + 1].Key = sibCopy.items[take + 1].Key]} |->
          Bind([rm \in {RemoveItem(sibCopy, take)} |->
          Bind([sib1 \in {[rm.node EXCEPT
                         !.children = IF fromLeft THEN Slice(@, 0, Len(@) - 1) ELSE Slice(@, 1, Len(@))]} |->
          Bind([mEdited \in {[c.m EXCEPT !.nodeCache =
                            CacheSet(CacheSet(CacheSet(@, c.n, node1), c.s, sib1), c.p, parent1)]} |->
          Bind([sp \in {setParent(mEdited, childID, node1.id, rd)} |->
          IF sp.err # "ok" THEN DRet(sp.err, sp.m, 0)
             ELSE PutThree(sp.m, node1, sib1, parent1)])])])])])])])])])])])])])])

\* btree.go:851-991: merge an internal node with its left sibling, else with
\* its right one, pulling the parent separator down; collapse an empty root
mergeInternal(m, nref, pref, pos, rd) ==
    Bind([node \in {m.nodeCache[nref]} |->
    Bind([parent \in {m.nodeCache[pref]} |->
    Bind([sibPos \in {IF pos > 0 THEN pos - 1 ELSE pos + 1} |->
    Bind([sepPos \in {IF pos > 0 THEN pos - 1 ELSE pos} |->
    IF sibPos >= Len(parent.children) THEN DRet("panic", m, 0)
       ELSE
       Bind([g \in {GetNode(m, parent.children[sibPos + 1], rd)} |->
       IF g.err # "ok" THEN DRet(g.err, g.m, 0)
          ELSE
          Bind([sibling \in {g.m.nodeCache[g.ref]} |->
          Bind([gone \in {IF pos > 0 THEN node ELSE sibling} |->
          Bind([c1 \in {CloneNode(g.m, IF pos > 0 THEN sibling ELSE node)} |->
          Bind([c2 \in {CloneNode(c1.m, parent)} |->
          IF c1.err # "ok" THEN DRet(c1.err, c1.m, 0)
             ELSE IF c2.err # "ok" THEN DRet(c2.err, c2.m, 0)
             ELSE
             Bind([keepCopy \in {c2.m.nodeCache[c1.ref]} |->
             Bind([parentCopy \in {c2.m.nodeCache[c2.ref]} |->
             IF sepPos >= Len(parentCopy.items) THEN DRet("panic", c2.m, 0)
                ELSE
                Bind([merged \in {[keepCopy EXCEPT
                                 !.items = Append(@, MkItem(parentCopy.items[sepPos + 1].Key, NilValue))
                                           \o gone.items,
                                 !.count = (Len(keepCopy.items) + 1 + Len(gone.items)) % 65536,
                                 !.children = @ \o gone.children]} |->
                Bind([m1 \in {[c2.m EXCEPT !.nodeCache = CacheSet(@, c1.ref, merged)]} |->
                Bind([sp \in {setParentAll(m1, gone.children, merged.id, rd)} |->
                Bind([ri \in {RemoveItem(parentCopy, sepPos)} |->
                Bind([rc \in {RemoveChild(ri.node, sepPos + 1)} |->
                IF sp.err # "ok" THEN DRet(sp.err, sp.m, 0)
                   ELSE IF ri.err # "ok" THEN DRet(ri.err, sp.m, 0)
                   ELSE IF rc.err # "ok"
                   THEN DRet(rc.err, [sp.m EXCEPT !.nodeCache = CacheSet(@, c2.ref, ri.node)], 0)
                   ELSE
                   Bind([d \in {PutTwoDelete([sp.m EXCEPT !.nodeCache = CacheSet(@, c2.ref, rc.node)],
                                         merged, rc.node, gone.id)} |->
                   IF d.err # "ok" THEN d
                      ELSE IF rc.node.id = d.m.rootNodeID /\ rc.node.count = 0
                      THEN Bind([sr \in {SetRootNode(d.m, merged)} |->
                           IF sr.err # "ok" THEN DRet(sr.err, sr.m, 0)
                              ELSE DRet("ok", DeleteNode(sr.m, rc.node.id), merged.id)])
                      ELSE d])])])])])])])])])])])])])])])])])

\* btree.go:721-992; nref: the under-full internal node, pref: its parent
rebalanceInternal(m, nref, pref, rd) ==
    Bind([node \in {m.nodeCache[nref]} |->
    Bind([parent \in {m.nodeCache[pref]} |->
    Bind([pos \in {ChildIndex(parent, node.id)} |->
    Bind([gl \in {IF pos > 0 THEN GetNode(m, parent.children[pos], rd)
              ELSE [err |-> "ok", m |-> m, ref |-> 0]} |->
    Bind([lendL \in {pos > 0 /\ gl.err = "ok" /\ gl.m.nodeCache[gl.ref].count > MinItems(m)} |->
    Bind([gr \in {IF pos < Len(parent.children) - 1 THEN GetNode(gl.m, parent.children[pos + 2], rd)
              ELSE [err |-> "ok", m |-> gl.m, ref |-> 0]} |->
    Bind([lendR \in {pos < Len(parent.children) - 1 /\ gr.err = "ok"
                 /\ gr.m.nodeCache[gr.ref].count > MinItems(m)} |->
    IF pos < 0 THEN DRet("node not found in parent", m, 0)
       ELSE IF gl.err # "ok" THEN DRet(gl.err, gl.m, 0)
       ELSE IF lendL THEN borrowInternal(gl.m, nref, pref, gl.ref, pos, TRUE, rd)
       ELSE IF gr.err # "ok" THEN DRet(gr.err, gr.m, 0)
       ELSE IF lendR THEN borrowInternal(gr.m, nref, pref, gr.ref, pos, FALSE, rd)
       ELSE mergeInternal(gr.m, nref, pref, pos, rd)])])])])])])])

\* leaf branch of delete (btree.go:449-480)
deleteLeaf(m, ref, key, rd) ==
    Bind([node \in {m.nodeCache[ref]} |->
    Bind([pos \in {FindKey(node, key)} |->
    IF pos < 0 THEN DRet("ErrKeyNotFound", m, 0)
       ELSE
       Bind([c \in {CloneNode(m, node)} |->
       IF c.err # "ok" THEN DRet(c.err, c.m, 0)
          ELSE
          Bind([rm \in {RemoveItem(c.m.nodeCache[c.ref], pos)} |->
          Bind([m1 \in {[c.m EXCEPT !.nodeCache = CacheSet(@, c.ref, rm.node)]} |->
          IF rm.err # "ok" THEN DRet(rm.err, c.m, 0)
             ELSE IF rm.node.count < MinItems(m) /\ rm.node.parent # 0
             THEN Bind([g \in {GetNode(m1, rm.node.parent, rd)} |->
                  IF g.err # "ok" THEN DRet(g.err, g.m, 0)
                     ELSE rebalanceLeaf(g.m, c.ref, g.ref, rd)])
             ELSE DRet("ok", m1, c.ref)])])])])])

RECURSIVE delete(_, _, _, _, _)
delete(m, ref, key, rd, fuel) ==
    Bind([node \in {m.nodeCache[ref]} |->
    IF fuel = 0 THEN DRet("panic", m, 0)
       ELSE IF node.nodeType = LeafNode THEN deleteLeaf(m, ref, key, rd)
       ELSE Bind([childPos \in {FindChildPos(node, key)} |->
            IF childPos < 0 \/ childPos >= Len(node.children) THEN DRet("panic", m, 0)
               ELSE
               Bind([g \in {GetNode(m, node.children[childPos + 1], rd)} |->
               IF g.err # "ok" THEN DRet(g.err, g.m, 0)
                  ELSE
                  Bind([r \in {delete(g.m, g.ref, key, rd, fuel - 1)} |->
                  IF r.err # "ok" THEN r
                     ELSE
                     Bind([newChild \in {r.m.nodeCache[r.ret]} |->
                     Bind([c \in {CloneNode(r.m, r.m.nodeCache[ref])} |->
                     IF c.err # "ok" THEN DRet(c.err, c.m, 0)
                        ELSE
                        Bind([nodeCopy \in {[c.m.nodeCache[c.ref] EXCEPT !.children[childPos + 1] = newChild.id]} |->
                        Bind([m1 \in {[c.m EXCEPT !.nodeCache = CacheSet(@, c.ref, nodeCopy)]} |->
                        IF newChild.count < MinItems(m) /\ newChild.parent # 0
                           THEN rebalanceInternal(m1, r.ret, c.ref, rd)
                           ELSE DRet("ok", m1, c.ref)])])])])])])])])

\* BTree.Delete up to, not including, CommitTransaction (btree.go:408-441)
DeletePre(m, key, rd) ==
    IF KeyLen(key) > MaxKeySize THEN Pre("ErrKeyTooLarge", m, FALSE)
    ELSE
    Bind([b \in {BeginTransaction(m)} |->
    IF b.err # "ok" THEN Pre(b.err, b.m, FALSE)
       ELSE
       Bind([g \in {GetRootNode(b.m, rd)} |->
       IF g.err # "ok" THEN Errored(g.err, g.m)
          ELSE
          Bind([r \in {delete(g.m, g.ref, key, rd, MaxDepth)} |->
          IF r.err # "ok" THEN Errored(r.err, r.m)
             ELSE
             Bind([root \in {r.m.nodeCache[g.ref]} |->
             Bind([newRoot \in {r.m.nodeCache[r.ret]} |->
             IF newRoot.id # root.id
                THEN Bind([sr \in {SetRootNode(r.m, newRoot)} |->
                     IF sr.err # "ok" THEN Errored(sr.err, sr.m)
                        ELSE Pre("ok", sr.m, TRUE)])
                ELSE Pre("ok", r.m, TRUE)])])])])])

(***************************************************************************)
(* State                                                                   *)
(***************************************************************************)
VARIABLES
    file,       \* contents of the database file: [header, pages]
    storage,    \* the Storage object: nodeCache, rootNodeID, nextNodeID,
                \* freeNodeIDs, dirtyNodes, transaction, originalRoot
    isClosed,   \* DB.isClosed
    crashed,    \* the process has stopped; only the file is left
    pc,         \* position of the writer: "idle", or inside
                \* CommitTransaction at "nodes", "header" or "sync"
    cur,        \* the Put/Delete whose commit is running
    wl,         \* the workload: [load, keys, ops], fixed by Init
    faults,     \* injected I/O errors and process stops
    reopens,    \* Open calls after the first
    gets,       \* Get calls that read nodes from the file
    readers,    \* the threads inside DB.Get: [pc, key, id, node, smu, depth,
                \* view, res]
    \* history variables
    lastOp,     \* the last call that returned: [op, key, value, err]
    hist,       \* the Put/Delete calls that returned and the process stops,
                \* in order: [op, key, value, err, had]
    before,     \* what Get returned for each key when the last Put, Delete
                \* or Close was called
    after,      \* what Get returns for each key in the state the running
                \* Put/Delete has prepared for its commit
    base,       \* node cache, file and root when the last Put/Delete was called
    snap        \* the stream the last DB.SnapshotTo wrote, and what Get
                \* returned for each key when it was written

vars == <<file, storage, isClosed, crashed, pc, cur, wl, faults, reopens, gets,
          readers, lastOp, hist, before, after, base, snap>>

\* the Storage object together with its file, as the operators take it
Mem(s, f) ==
    [nodeCache |-> s.nodeCache, rootNodeID |-> s.rootNodeID, nextNodeID |-> s.nextNodeID,
     freeNodeIDs |-> s.freeNodeIDs, dirtyNodes |-> s.dirtyNodes,
     transaction |-> s.transaction, originalRoot |-> s.originalRoot,
     fileClosed |-> s.fileClosed, file |-> f, maxItems |-> wl.maxItems]

Sto(m) ==
    [nodeCache |-> m.nodeCache, rootNodeID |-> m.rootNodeID, nextNodeID |-> m.nextNodeID,
     freeNodeIDs |-> m.freeNodeIDs, dirtyNodes |-> m.dirtyNodes,
     transaction |-> m.transaction, originalRoot |-> m.originalRoot,
     fileClosed |-> m.fileClosed]

EmptyCache == [i \in {} |-> ZeroPage]

\* OpenStorage before the file is looked at
NewStorage ==
    [nodeCache |-> EmptyCache, rootNodeID |-> 0, nextNodeID |-> 1, freeNodeIDs |-> <<>>,
     dirtyNodes |-> {}, transaction |-> FALSE, originalRoot |-> 0, fileClosed |-> FALSE]

EmptyFile == [header |-> [rootNodeID |-> 0, nextNodeID |-> 1, freeNodeIDs |-> <<>>],
              pages |-> EmptyCache]

\* initializeNewFile: header, root leaf, header again
initializeNewFile(m) ==
    LET m1 == writeHeader(m)
        a == Allocate(m1)
        rootNode == NewLeafNode(a.id)
        m2 == [a.m EXCEPT !.rootNodeID = a.id, !.nodeCache = CacheSet(@, a.id, rootNode)]
        w == writeNode(m2, rootNode)
    IN writeHeader(w.m)

\* readHeader into a fresh Storage
readHeader(f) ==
    [NewStorage EXCEPT !.rootNodeID = f.header.rootNodeID,
                       !.nextNodeID = f.header.nextNodeID,
                       !.freeNodeIDs = Take(f.header.freeNodeIDs, MaxFreeInHeader)]

\* what Get returns for key on the Storage s over the file f, reads succeeding
GetResult(s, f, key) ==
    LET g == Get(Mem(s, f), key, TRUE) IN [err |-> g.err, val |-> g.val]

GetAll(s, f, keys) == [k \in keys |-> GetResult(s, f, k)]

\* what Get returns after a fresh Open of the file
DiskAll(f, keys) == GetAll(readHeader(f), f, keys)

NoResult == [err |-> "none", val |-> NilValue]

\* a thread outside DB.Get
IdleReader ==
    [pc |-> "idle", key |-> 0, id |-> 0, node |-> ZeroPage, smu |-> "none", depth |-> 0,
     view |-> NoResult, res |-> NoResult]

Readers == 1..NumReaders

NoOp == [op |-> "none", key |-> 0, value |-> NilValue, err |-> "ok"]

Done(op, key, value, err) == [op |-> op, key |-> key, value |-> value, err |-> err]

Event(op, key, value, err, had) ==
    [op |-> op, key |-> key, value |-> value, err |-> err, had |-> had]

\* workloads
\* an empty database; one key stored; LoadOps keys stored, no faults
\* the load puts loadValue; later Puts take their value from values
Workload(nLoad, keySet, nOps, nFaults, cap, valueSet, loaded) ==
    [load |-> nLoad, keys |-> keySet, ops |-> nOps, faults |-> nFaults,
     maxItems |-> cap, values |-> valueSet, loadValue |-> loaded, admin |-> FALSE]
Fresh == Workload(0, 1..NumKeys, MaxOps, MaxFaults, MaxItems, Values, 1)
Single == Workload(1, 1..NumKeys, MaxOps, MaxFaults, MaxItems, Values, 1)
Loaded == Workload(LoadOps, 1..(LoadOps + 2), MaxLoadedOps, 0, MaxItems, Values, 1)
Conc == Workload(ConcLoad, 1..(ConcLoad + 1), MaxConcOps, MaxFaults, MaxItems, Values, 1)
Sized == Workload(SizedLoad, 1..(SizedLoad + 2), MaxSizedOps, 0, FullMaxItems,
                  {1, BigValue, GapValue}, BigValue)
\* the i-th Put of the load, i = 0..load-1
LoadKey(i) == i + 2

\* DrainLoad keys stored, which make a root over two leaves; then Deletes only
Drain == Workload(DrainLoad, 2..(DrainLoad + 1), DrainLoad, 0, MaxItems, {1}, 1)

\* an empty database; the client also calls Sync, Reload, SnapshotTo, RestoreFrom
Admin == [Workload(0, 1..2, MaxAdminOps, MaxFaults, MaxItems, Values, 1)
              EXCEPT !.admin = TRUE]

\* no SnapshotTo has returned yet
NoSnapshot == [taken |-> FALSE, file |-> EmptyFile, gets |-> <<>>]

InitWith(w) ==
    LET m == initializeNewFile(Mem(NewStorage, EmptyFile))
    IN /\ wl = w
       /\ file = m.file
       /\ storage = Sto(m)
       /\ isClosed = FALSE
       /\ crashed = FALSE
       /\ pc = "idle"
       /\ cur = NoOp
       /\ faults = 0
       /\ reopens = 0
       /\ gets = 0
       /\ readers = [t \in Readers |-> IdleReader]
       /\ lastOp = NoOp
       /\ hist = <<>>
       /\ before = GetAll(Sto(m), m.file, w.keys)
       /\ after = GetAll(Sto(m), m.file, w.keys)
       /\ base = [cache |-> Sto(m).nodeCache, file |-> m.file, root |-> m.rootNodeID]
       /\ snap = NoSnapshot

InitFresh == InitWith(Fresh)
InitSingle == InitWith(Single)
InitLoaded == InitWith(Loaded)
InitConc == InitWith(Conc)
InitSized == InitWith(Sized)
InitAdmin == InitWith(Admin)
InitDrain == InitWith(Drain)
Init == InitFresh \/ InitSingle \/ InitLoaded \/ InitSized \/ InitDrain

Loading == Len(hist) < wl.load
CanFault == ~Loading /\ faults < wl.faults
\* whether disk reads of the call succeed; a failing read is an injected fault
ReadOutcomes == IF CanFault THEN {TRUE, FALSE} ELSE {TRUE}
\* db.mu is free: no Put/Delete is running and no Get holds it shared
CanCall == pc = "idle" /\ ~crashed /\ \A t \in Readers : readers[t].pc = "idle"
CanMutate(key, value) ==
    /\ CanCall
    /\ Len(hist) < wl.load + wl.ops
    /\ Loading => key = LoadKey(Len(hist)) /\ value = wl.loadValue
\* the arguments of Put: every key with every value, and the over-long
\* ones; a closed database, which does not look at them, is given one pair
PutInputs ==
    IF isClosed THEN {<<Min(wl.keys), wl.loadValue>>}
    ELSE (wl.keys \X wl.values)
             \cup {<<LongKey, 1>>, <<LongKey, LongValue>>, <<Min(wl.keys), LongValue>>}
\* the arguments of Delete
DeleteKeys == IF isClosed THEN {Min(wl.keys)} ELSE wl.keys \cup {LongKey}

\* a call that returns before BeginTransaction
Rejected(op, key, value, err) ==
    /\ lastOp' = Done(op, key, value, err)
    /\ hist' = Append(hist, Event(op, key, value, err, FALSE))
    /\ UNCHANGED <<file, storage, isClosed, crashed, pc, cur, wl, snap, readers, gets, faults, reopens,
                    after, base>>

\* BTree.Put / BTree.Delete returned at the length checks: the call leaves
\* whatever the code did up to that return
LengthError(op, key, value, r) ==
    /\ storage' = Sto(r.m)
    /\ file' = r.m.file
    /\ lastOp' = Done(op, key, value, r.err)
    /\ hist' = Append(hist, Event(op, key, value, r.err, FALSE))
    /\ UNCHANGED <<isClosed, crashed, pc, cur, wl, snap, readers, gets, faults, reopens, after, base>>

\* a mutating call ran up to CommitTransaction or returned before it
AfterPre(op, key, value, r) ==
    /\ storage' = Sto(r.m)
    /\ faults' = faults + (IF r.err = "io" THEN 1 ELSE 0)
    /\ base' = [cache |-> storage.nodeCache, file |-> file, root |-> storage.rootNodeID]
    /\ IF r.commit
       THEN /\ pc' = "nodes"
            /\ cur' = Event(op, key, value, "ok", before'[key].err = "ok")
            /\ after' = GetAll(Sto(r.m), r.m.file, wl.keys)
            /\ UNCHANGED <<lastOp, hist>>
       ELSE /\ pc' = "idle"
            /\ cur' = NoOp
            /\ lastOp' = Done(op, key, value, r.err)
            /\ hist' = Append(hist, Event(op, key, value, r.err, before'[key].err = "ok"))
            /\ after' = after
    /\ file' = r.m.file
    /\ UNCHANGED <<isClosed, crashed, wl, snap, readers, gets, reopens>>

\* DB.Put up to the commit
PutCall(key, value, rd) ==
    /\ CanMutate(key, value)
    /\ before' = GetAll(storage, file, wl.keys)
    /\ IF isClosed THEN Rejected("Put", key, value, "database closed")
       ELSE IF KeyLen(key) > MaxKeySize \/ ValLen(value) > MaxValueSize
       THEN LengthError("Put", key, value, PutPre(Mem(storage, file), key, value, rd))
       ELSE AfterPre("Put", key, value, PutPre(Mem(storage, file), key, value, rd))

\* DB.Delete up to the commit
DeleteCall(key, rd) ==
    /\ CanMutate(key, 1)
    /\ ~Loading
    /\ before' = GetAll(storage, file, wl.keys)
    /\ IF isClosed THEN Rejected("Delete", key, NilValue, "database closed")
       ELSE IF KeyLen(key) > MaxKeySize
       THEN LengthError("Delete", key, NilValue, DeletePre(Mem(storage, file), key, rd))
       ELSE AfterPre("Delete", key, NilValue, DeletePre(Mem(storage, file), key, rd))

\* a Get that goes to the tree without looking at isClosed
GetCallUnchecked(key, rd) ==
    /\ CanCall
    /\ LET g == Get(Mem(storage, file), key, rd)
       IN /\ storage' = Sto(g.m)
          /\ faults' = faults + (IF g.err = "io" THEN 1 ELSE 0)
          /\ gets' = gets + (IF Sto(g.m) # storage THEN 1 ELSE 0)
          /\ gets' <= MaxGets
          /\ lastOp' = IF isClosed \/ KeyLen(key) > MaxKeySize
                        THEN Done("Get", key, NilValue, g.err) ELSE lastOp
    /\ UNCHANGED <<file, isClosed, crashed, pc, cur, wl, snap, readers, reopens, hist, before, after, base>>

\* DB.Get: the nodes it reads from the file enter the cache.  lastOp keeps
\* the Gets that the database refuses (closed, or the key too long).
GetCall(key, rd) ==
    /\ CanCall
    /\ IF isClosed
       THEN /\ lastOp' = Done("Get", key, NilValue, "database closed")
            /\ UNCHANGED <<storage, faults, gets>>
       ELSE LET g == Get(Mem(storage, file), key, rd)
            IN /\ storage' = Sto(g.m)
               /\ faults' = faults + (IF g.err = "io" THEN 1 ELSE 0)
               /\ gets' = gets + (IF Sto(g.m) # storage THEN 1 ELSE 0)
               /\ gets' <= MaxGets
               /\ lastOp' = IF KeyLen(key) > MaxKeySize
                             THEN Done("Get", key, NilValue, g.err) ELSE lastOp
    /\ UNCHANGED <<file, isClosed, crashed, pc, cur, wl, snap, readers, reopens, hist, before, after, base>>

\* the dirty nodes CommitTransaction cannot write: gone from the cache, or
\* too large to serialise
Unwritable(s) ==
    {id \in s.dirtyNodes : id \notin DOMAIN s.nodeCache
                            \/ Serialize(s.nodeCache[id]).err # "ok"}

\* writeNode of the cached nodes ids
WritePages(f, s, ids) ==
    [f EXCEPT !.pages = [i \in DOMAIN f.pages \cup ids |->
                            IF i \in ids THEN Serialize(s.nodeCache[i]).page ELSE f.pages[i]]]

\* the call returns err from inside CommitTransaction: nothing is aborted
CommitReturns(err) ==
    /\ pc' = "idle"
    /\ cur' = NoOp
    /\ lastOp' = Done(cur.op, cur.key, cur.value, err)
    /\ hist' = Append(hist, [cur EXCEPT !.err = err])

\* CommitTransaction, the loop over dirtyNodes: every dirty node is written
CommitNodes ==
    /\ pc = "nodes" /\ ~crashed
    /\ ~storage.fileClosed
    /\ Unwritable(storage) = {}
    /\ file' = WritePages(file, storage, storage.dirtyNodes)
    /\ pc' = "header"
    /\ UNCHANGED <<storage, isClosed, crashed, cur, wl, snap, readers, gets, faults, reopens,
                    lastOp, hist, before, after, base>>

\* the loop stops at a node it cannot write, or at a write error, after it
\* has written some of the other dirty nodes (map order is unspecified)
CommitNodesFail(written) ==
    /\ pc = "nodes" /\ ~crashed
    /\ written \subseteq storage.dirtyNodes \ Unwritable(storage)
    /\ written # storage.dirtyNodes
    /\ \/ /\ \E bad \in Unwritable(storage) :
                CommitReturns(IF bad \notin DOMAIN storage.nodeCache
                              THEN "dirty node not found in cache" ELSE "node size")
          /\ UNCHANGED faults
       \/ /\ CanFault
          /\ faults' = faults + 1
          /\ CommitReturns("io")
    /\ file' = WritePages(file, storage, written)
    /\ UNCHANGED <<storage, isClosed, crashed, wl, snap, readers, gets, reopens, before, after, base>>

\* CommitTransaction on a Storage whose file is closed: the first write fails
CommitClosed ==
    /\ pc = "nodes" /\ ~crashed
    /\ storage.fileClosed
    /\ CommitReturns("file already closed")
    /\ UNCHANGED <<file, storage, isClosed, crashed, wl, snap, readers, gets, faults, reopens,
                    before, after, base>>

\* CommitTransaction, writeHeader
CommitHeader ==
    /\ pc = "header" /\ ~crashed
    /\ file' = writeHeader(Mem(storage, file)).file
    /\ pc' = "sync"
    /\ UNCHANGED <<storage, isClosed, crashed, cur, wl, snap, readers, gets, faults, reopens,
                    lastOp, hist, before, after, base>>

\* writeHeader fails
CommitHeaderFail ==
    /\ pc = "header" /\ ~crashed
    /\ CanFault
    /\ faults' = faults + 1
    /\ CommitReturns("io")
    /\ UNCHANGED <<file, storage, isClosed, crashed, wl, snap, readers, gets, reopens, before, after, base>>

\* CommitTransaction, file.Sync and the reset of the transaction state
CommitSync ==
    /\ pc = "sync" /\ ~crashed
    /\ storage' = [storage EXCEPT !.transaction = FALSE, !.dirtyNodes = {}]
    /\ CommitReturns("ok")
    /\ UNCHANGED <<file, isClosed, crashed, wl, snap, readers, gets, faults, reopens, before, after, base>>

\* file.Sync fails
CommitSyncFail ==
    /\ pc = "sync" /\ ~crashed
    /\ CanFault
    /\ faults' = faults + 1
    /\ CommitReturns("io")
    /\ UNCHANGED <<file, storage, isClosed, crashed, wl, snap, readers, gets, reopens, before, after, base>>

\* the process stops; in the node loop any subset of the dirty nodes may
\* have reached the file
Crash(written) ==
    /\ ~crashed
    /\ CanFault
    /\ faults' = faults + 1
    /\ IF pc = "nodes"
       THEN written \subseteq storage.dirtyNodes \ Unwritable(storage)
       ELSE written = {}
    /\ file' = WritePages(file, storage, written)
    /\ crashed' = TRUE
    /\ storage' = NewStorage
    /\ isClosed' = FALSE
    /\ pc' = "idle"
    /\ cur' = NoOp
    /\ lastOp' = Done("Crash", cur.key, cur.value, pc)
    /\ hist' = Append(hist, Event("Crash", cur.key, cur.value, pc, FALSE))
    /\ readers' = [t \in Readers |-> IdleReader]
    /\ UNCHANGED <<wl, snap, gets, reopens, before, after, base>>

\* Storage.Close: an open transaction is aborted and the file closed; closing
\* a closed file is an error.  result: [err, m]
StorageClose(m) ==
    [err |-> IF m.fileClosed THEN "file already closed" ELSE "ok",
     m |-> [abortTransaction(m) EXCEPT !.fileClosed = TRUE]]

\* DB.Close: Storage.Close aborts an open transaction and closes the file
Close ==
    /\ CanCall
    /\ ~Loading
    /\ before' = GetAll(storage, file, wl.keys)
    /\ IF isClosed
       THEN /\ lastOp' = Done("Close", 0, NilValue, "database already closed")
            /\ UNCHANGED <<storage, isClosed>>
       ELSE /\ isClosed' = TRUE
            /\ storage' = Sto(StorageClose(Mem(storage, file)).m)
            /\ lastOp' = Done("Close", 0, NilValue, StorageClose(Mem(storage, file)).err)
    /\ UNCHANGED <<file, crashed, pc, cur, wl, snap, readers, gets, faults, reopens, hist, after, base>>

\* the errors that count as injected faults
Injected == {"io", "temp file", "rename", "reopen"}

\* the part of DB.Sync, DB.Reload, DB.SnapshotTo and DB.RestoreFrom that
\* they share: db.mu, then the isClosed check.  On an open database the
\* call counts among the operations of the workload and enters hist.
AdminCall(op, err) ==
    /\ CanCall
    /\ ~Loading
    /\ wl.admin
    /\ IF isClosed
       THEN /\ lastOp' = Done(op, 0, NilValue, "database closed")
            /\ UNCHANGED <<file, storage, faults, hist>>
       ELSE /\ Len(hist) < wl.load + wl.ops
            /\ lastOp' = Done(op, 0, NilValue, err)
            /\ hist' = Append(hist, Event(op, 0, NilValue, err, FALSE))
            /\ faults' = faults + (IF err \in Injected THEN 1 ELSE 0)
    /\ UNCHANGED <<isClosed, crashed, pc, cur, wl, readers, gets, reopens, before, after, base>>

\* file.Sync on the file of the Storage s; ok = FALSE is an injected error
FileSync(s, ok) ==
    IF s.fileClosed THEN "file already closed" ELSE IF ok THEN "ok" ELSE "io"

\* DB.Sync: BTree.Sync, Storage.Sync, file.Sync
SyncCall(ok) ==
    /\ AdminCall("Sync", FileSync(storage, ok))
    /\ UNCHANGED snap
    /\ ~isClosed => UNCHANGED <<file, storage>>

\* Storage.ReloadHeader: the header is read again and replaces the root id,
\* the next id and the free list; result: [err, m]
ReloadHeader(m, rd) ==
    IF m.fileClosed THEN [err |-> "file already closed", m |-> m]
    ELSE IF ~rd THEN [err |-> "io", m |-> m]
    ELSE [err |-> "ok",
          m |-> [m EXCEPT !.rootNodeID = m.file.header.rootNodeID,
                          !.nextNodeID = m.file.header.nextNodeID,
                          !.freeNodeIDs = Take(m.file.header.freeNodeIDs, MaxFreeInHeader)]]

\* DB.Reload: BTree.Reload, Storage.ReloadHeader
ReloadCall(rd) ==
    /\ AdminCall("Reload", ReloadHeader(Mem(storage, file), rd).err)
    /\ UNCHANGED snap
    /\ ~isClosed => /\ storage' = Sto(ReloadHeader(Mem(storage, file), rd).m)
                    /\ UNCHANGED file

\* DB.SnapshotTo: Sync, then the file is copied to the writer
SnapshotToCall(ok) ==
    /\ AdminCall("SnapshotTo", FileSync(storage, ok))
    /\ ~isClosed => UNCHANGED <<file, storage>>
    /\ snap' = IF ~isClosed /\ FileSync(storage, ok) = "ok"
               THEN [taken |-> TRUE, file |-> file, gets |-> GetAll(storage, file, wl.keys)]
               ELSE snap

\* the streams given to RestoreFrom: what the last SnapshotTo wrote
Snapshots == {snap.file}

\* how far DB.RestoreFrom gets: an error while the temporary file is
\* opened, written, synced or closed; an error of os.Rename; an error of
\* NewBTree on the renamed file; or no error
RestoreOutcomes ==
    IF CanFault THEN {"ok", "temp file", "rename", "reopen"} ELSE {"ok"}

\* a RestoreFrom that renames the stream over the file and keeps the tree it had
RestoreFromKeepTree(stream, outcome) ==
    /\ AdminCall("RestoreFrom", outcome)
    /\ UNCHANGED snap
    /\ ~isClosed => /\ snap.taken
                    /\ file' = stream
                    /\ storage' = storage

\* DB.RestoreFrom: the tree is closed; the stream is written to a temporary
\* file, which is renamed over the database file; a new tree is opened on
\* it and replaces db.tree.  Every error returns at once.
RestoreFromCall(stream, outcome) ==
    /\ AdminCall("RestoreFrom",
                 IF storage.fileClosed THEN "file already closed" ELSE outcome)
    /\ UNCHANGED snap
    /\ ~isClosed =>
          /\ snap.taken
          /\ file' = IF ~storage.fileClosed /\ outcome \in {"ok", "reopen"}
                     THEN stream ELSE file
          /\ storage' = IF ~storage.fileClosed /\ outcome = "ok"
                        THEN readHeader(stream)
                        ELSE Sto(StorageClose(Mem(storage, file)).m)

\* db.Open of the existing file, by a new process or after Close
Open ==
    /\ pc = "idle"
    /\ crashed \/ isClosed
    /\ reopens < MaxReopens
    /\ reopens' = reopens + 1
    /\ storage' = readHeader(file)
    /\ isClosed' = FALSE
    /\ crashed' = FALSE
    /\ lastOp' = Done("Open", 0, NilValue, IF crashed THEN "crashed" ELSE "closed")
    /\ UNCHANGED <<file, pc, cur, wl, snap, readers, gets, faults, hist, before, after, base>>

\* the keys given to Get; a closed database is asked for one key, which it
\* does not look at
GetKeys == IF isClosed THEN {Min(wl.keys)} ELSE wl.keys \cup {LongKey}

Next ==
    \/ \E kv \in PutInputs, rd \in ReadOutcomes : PutCall(kv[1], kv[2], rd)
    \/ \E k \in DeleteKeys, rd \in ReadOutcomes : DeleteCall(k, rd)
    \/ \E k \in GetKeys, rd \in ReadOutcomes : GetCall(k, rd)
    \/ CommitNodes
    \/ \E written \in SUBSET storage.dirtyNodes : CommitNodesFail(written)
    \/ CommitHeader
    \/ CommitHeaderFail
    \/ CommitSync
    \/ CommitSyncFail
    \/ \E written \in SUBSET storage.dirtyNodes : Crash(written)
    \/ Close
    \/ Open

Spec == Init /\ [][Next]_vars

\* the engine under a client that also calls Sync, Reload, SnapshotTo and
\* RestoreFrom; the process does not stop and the commits do not fail
NextAdmin ==
    \/ \E kv \in PutInputs \cap (wl.keys \X wl.values), rd \in ReadOutcomes :
          PutCall(kv[1], kv[2], rd)
    \/ \E k \in DeleteKeys \cap wl.keys, rd \in ReadOutcomes : DeleteCall(k, rd)
    \/ \E k \in GetKeys, rd \in ReadOutcomes : GetCall(k, rd)
    \/ CommitNodes
    \/ CommitClosed
    \/ CommitHeader
    \/ CommitSync
    \/ Close
    \/ Open
    \/ \E ok \in ReadOutcomes : SyncCall(ok)
    \/ \E rd \in ReadOutcomes : ReloadCall(rd)
    \/ \E ok \in ReadOutcomes : SnapshotToCall(ok)
    \/ \E stream \in Snapshots, outcome \in RestoreOutcomes : RestoreFromCall(stream, outcome)

SpecAdmin == InitAdmin /\ [][NextAdmin]_vars

(***************************************************************************)
(* Concurrent readers.  DB.Get takes db.mu shared, BTree.Get takes t.mu    *)
(* shared, and every Storage.GetNode takes s.mu shared for the length of   *)
(* the call.  Put, Delete and Close take db.mu exclusively, so they run    *)
(* only while no thread is inside Get (CanCall).                           *)
(***************************************************************************)
Returned(r, err, val) ==
    [r EXCEPT !.pc = "done", !.smu = "none", !.res = [err |-> err, val |-> val]]

\* BTree.search on the node GetNode returned: the answer of a leaf, or the
\* child to fetch next
Visited(r, node) ==
    IF r.depth = MaxDepth THEN Returned(r, "panic", NilValue)
    ELSE IF node.nodeType = LeafNode
    THEN Bind([i \in {LeafScan(node, r.key)} |->
         IF i = 0 THEN Returned(r, "ErrKeyNotFound", NilValue)
            ELSE Returned(r, "ok", node.items[i].Value)])
    ELSE Bind([childPos \in {FindChildPos(node, r.key)} |->
         IF childPos < 0 \/ childPos >= Len(node.children)
            THEN Returned(r, "panic", NilValue)
            ELSE [r EXCEPT !.pc = "getnode", !.smu = "none",
                           !.id = node.children[childPos + 1], !.depth = @ + 1]])

\* DB.Get and BTree.Get up to GetRootNode: the locks are taken shared
GetBegin(t, key) ==
    /\ pc = "idle" /\ ~crashed /\ ~Loading
    /\ readers[t].pc = "idle"
    /\ gets < MaxConcGets
    /\ gets' = gets + 1
    /\ readers' = [readers EXCEPT ![t] =
          IF isClosed THEN Returned(IdleReader, "database closed", NilValue)
          ELSE IF KeyLen(key) > MaxKeySize THEN Returned(IdleReader, "ErrKeyTooLarge", NilValue)
          ELSE [IdleReader EXCEPT !.pc = "getnode", !.key = key, !.id = storage.rootNodeID,
                                  !.view = GetResult(readHeader(file), file, key)]]
    /\ UNCHANGED <<file, storage, isClosed, crashed, pc, cur, wl, snap, faults, reopens,
                    lastOp, hist, before, after, base>>

\* Storage.GetNode up to the cache write: a hit returns the cached node, a
\* miss reads the page and keeps s.mu shared
GetNodeRead(t, rd) ==
    /\ ~crashed
    /\ readers[t].pc = "getnode"
    /\ IF readers[t].id \in DOMAIN storage.nodeCache
       THEN /\ rd
            /\ readers' = [readers EXCEPT ![t] = Visited(@, storage.nodeCache[@.id])]
            /\ UNCHANGED faults
       ELSE IF ~rd
       THEN /\ readers' = [readers EXCEPT ![t] = Returned(@, "io", NilValue)]
            /\ faults' = faults + 1
       ELSE /\ readers' = [readers EXCEPT ![t] =
                  Bind([x \in {readNode(Mem(storage, file), @.id)} |->
                  IF x.err # "ok" THEN Returned(@, x.err, NilValue)
                     ELSE [@ EXCEPT !.pc = "fill", !.node = x.node, !.smu = "R"]])]
            /\ UNCHANGED faults
    /\ UNCHANGED <<file, storage, isClosed, crashed, pc, cur, wl, snap, gets, reopens,
                    lastOp, hist, before, after, base>>

\* the other threads that are at the cache write too
Racing(t) == {u \in Readers \ {t} : readers[u].pc = "fill"}

\* Storage.GetNode, s.nodeCache[nodeID] = node, then the search goes on.
\* Written together with another thread's write, the entry may not land.
CacheFill(t, landed) ==
    /\ ~crashed
    /\ readers[t].pc = "fill"
    /\ ~landed => Racing(t) # {}
    /\ storage' = IF landed
                  THEN [storage EXCEPT !.nodeCache = CacheSet(@, readers[t].id, readers[t].node)]
                  ELSE storage
    /\ readers' = [readers EXCEPT ![t] = Visited(@, @.node)]
    /\ UNCHANGED <<file, isClosed, crashed, pc, cur, wl, snap, gets, faults, reopens,
                    lastOp, hist, before, after, base>>

\* two map writes at once that the runtime detects: the process dies
MapWriteFatal ==
    /\ ~crashed
    /\ \E t \in Readers : readers[t].pc = "fill" /\ Racing(t) # {}
    /\ crashed' = TRUE
    /\ storage' = NewStorage
    /\ isClosed' = FALSE
    /\ readers' = [t \in Readers |-> IdleReader]
    /\ lastOp' = Done("Crash", 0, NilValue, "concurrent map writes")
    /\ hist' = Append(hist, Event("Crash", 0, NilValue, "concurrent map writes", FALSE))
    /\ UNCHANGED <<file, pc, cur, wl, snap, gets, faults, reopens, before, after, base>>

\* DB.Get returns: the locks are released
GetEnd(t) ==
    /\ ~crashed
    /\ readers[t].pc = "done"
    /\ readers' = [readers EXCEPT ![t] = IdleReader]
    /\ UNCHANGED <<file, storage, isClosed, crashed, pc, cur, wl, snap, gets, faults, reopens,
                    lastOp, hist, before, after, base>>

NextConc ==
    \/ \E kv \in PutInputs, rd \in ReadOutcomes : PutCall(kv[1], kv[2], rd)
    \/ \E k \in DeleteKeys, rd \in ReadOutcomes : DeleteCall(k, rd)
    \/ \E t \in Readers, k \in wl.keys \cup {LongKey} : GetBegin(t, k)
    \/ \E t \in Readers, rd \in ReadOutcomes : GetNodeRead(t, rd)
    \/ \E t \in Readers, landed \in BOOLEAN : CacheFill(t, landed)
    \/ MapWriteFatal
    \/ \E t \in Readers : GetEnd(t)
    \/ CommitNodes
    \/ \E written \in SUBSET storage.dirtyNodes : CommitNodesFail(written)
    \/ CommitHeader
    \/ CommitHeaderFail
    \/ CommitSync
    \/ CommitSyncFail
    \/ \E written \in SUBSET storage.dirtyNodes : Crash(written)
    \/ Close
    \/ Open

SpecConc == InitConc /\ [][NextConc]_vars

(***************************************************************************)
(* Properties                                                              *)
(***************************************************************************)
Idle == pc = "idle" /\ ~crashed /\ ~isClosed

Found(v) == [err |-> "ok", val |-> v]
NotFound == [err |-> "ErrKeyNotFound", val |-> NilValue]

\* what Get returns now for key
Now(key) == GetResult(storage, file, key)

Succeeded(e) == e.op \in {"Put", "Delete"} /\ e.err = "ok"

\* after hist[i], only successful Puts and Deletes of other keys returned
OthersSince(i) ==
    \A j \in (i + 1)..Len(hist) : Succeeded(hist[j]) /\ hist[j].key # hist[i].key

\* the calls so far are successful Puts of pairwise distinct keys
DistinctPuts ==
    \A i \in 1..Len(hist) :
        /\ hist[i].op = "Put" /\ hist[i].err = "ok"
        /\ \A j \in 1..(i - 1) : hist[j].key # hist[i].key

\* C1: after successful Puts of pairwise distinct keys, in any order, Get
\* returns for every inserted key the value that was put
C1_RoundTrip ==
    (Idle /\ DistinctPuts) =>
        \A i \in 1..Len(hist) : Now(hist[i].key) = Found(hist[i].value)

\* C2: after a successful Delete(k), Get(k) is ErrKeyNotFound whatever
\* successful operations on other keys follow
C2_DeletedStaysAbsent ==
    Idle =>
        \A i \in 1..Len(hist) :
            (hist[i].op = "Delete" /\ hist[i].err = "ok" /\ OthersSince(i))
                => Now(hist[i].key) = NotFound

\* C3: after a successful Put(k, v2) on a present key, Get(k) is v2 until
\* the next mutation of k, in the session and after Close and Open
C3_OverwriteVisible ==
    Idle =>
        \A i \in 1..Len(hist) :
            (hist[i].op = "Put" /\ hist[i].err = "ok" /\ hist[i].had /\ OthersSince(i))
                => Now(hist[i].key) = Found(hist[i].value)

\* the calls so far are successful Puts and Deletes
SuccessOnly == \A i \in 1..Len(hist) : Succeeded(hist[i])

\* C4: after successful Puts and Deletes, Close and a fresh Open, Get returns
\* for every key the value or ErrKeyNotFound it returned before Close, and
\* every node the reopened engine has cached is the node read from its page
C4_ReopenSame ==
    (pc = "idle" /\ lastOp.op = "Open" /\ lastOp.err = "closed" /\ SuccessOnly) =>
        /\ \A id \in DOMAIN storage.nodeCache :
              storage.nodeCache[id] = readNode(Mem(storage, file), id).node
        /\ \A k \in wl.keys :
              before[k].err \in {"ok", "ErrKeyNotFound"} => Now(k) = before[k]

\* a successful Put or Delete was followed by Close and Open, with keys stored
\* under an internal root
C4_Witness ==
    /\ pc = "idle" /\ lastOp.op = "Open" /\ lastOp.err = "closed" /\ SuccessOnly
    /\ Len(hist) >= 3
    /\ \E k \in wl.keys : before[k].err = "ok"
    /\ \E k \in wl.keys : before[k].err = "ErrKeyNotFound"
    /\ file.pages[file.header.rootNodeID].nodeType = InternalNode

C6_FailedPutNoEffect ==
    (pc = "idle" /\ ~crashed /\ lastOp.op = "Put" /\ lastOp.err # "ok") =>
        GetAll(storage, file, wl.keys) = before

\* C7: when Put or Delete returns, no transaction is open, the root is the
\* committed root or the root at begin, and the call did not fail with
\* "transaction already in progress"
C7_NoTxnLeftOpen ==
    (pc = "idle" /\ ~crashed /\ lastOp.op \in {"Put", "Delete"}) =>
        /\ ~storage.transaction
        /\ storage.rootNodeID \in {file.header.rootNodeID, base.root}
        /\ lastOp.err # "transaction already in progress"

\* the threads inside DB.Get, holding db.mu shared
Reading == {t \in Readers : readers[t].pc # "idle"}

\* C8: while a thread is inside Get no transaction is in progress, and a Get
\* that answers with a value or ErrKeyNotFound answers what the root
\* committed last held for its key when the Get took the read lock.
C8_GetsSeeCommitted ==
    \A t \in Reading :
        /\ ~storage.transaction
        /\ (readers[t].pc = "done" /\ readers[t].res.err \in {"ok", "ErrKeyNotFound"})
              => readers[t].res = readers[t].view

\* the threads at the cache write of GetNode
CacheWriters == {t \in Readers : readers[t].pc = "fill"}

\* C9: a thread writes the node cache only while it holds s.mu exclusively,
\* so no two threads are at the cache write together.
C9_CacheWriteExclusive ==
    /\ \A t \in CacheWriters : readers[t].smu = "W"
    /\ Cardinality(CacheWriters) <= 1

\* two threads inside Get are at the cache write of the same node together
C9_TwoWriters ==
    \E t, u \in CacheWriters : t # u /\ readers[t].id = readers[u].id

\* the node with the given id as it was when the last Put/Delete was called
BaseNode(id) ==
    IF id \in DOMAIN base.cache THEN base.cache[id]
    ELSE IF id \in DOMAIN base.file.pages THEN base.file.pages[id]
    ELSE ZeroPage

RECURSIVE ReachFrom(_, _)
ReachFrom(ids, fuel) ==
    IF fuel = 0 THEN ids
    ELSE LET more == UNION {{BaseNode(id).children[i] : i \in 1..Len(BaseNode(id).children)} : id \in ids}
             next == ids \cup {c \in more : c > 0}
         IN IF next = ids THEN ids ELSE ReachFrom(next, fuel - 1)

\* the nodes reachable from the root recorded at BeginTransaction
BaseReachable == ReachFrom({base.root}, MaxDepth)

\* C10: from BeginTransaction on, no node reachable from the root recorded
\* there is changed in the cache or overwritten on the file
C10_CopyOnWrite ==
    (~crashed /\ lastOp.op # "Open") =>
        \A id \in BaseReachable :
            /\ (id \in DOMAIN base.cache /\ id \in DOMAIN storage.nodeCache)
                  => storage.nodeCache[id] = base.cache[id]
            /\ id \in DOMAIN base.file.pages => file.pages[id] = base.file.pages[id]

\* every dirty node of the running transaction is on the file as the cache
\* holds it
DirtyWritten ==
    \A id \in storage.dirtyNodes :
        /\ id \in DOMAIN storage.nodeCache
        /\ id \in DOMAIN file.pages
        /\ file.pages[id] = Serialize(storage.nodeCache[id]).page

\* a RestoreFrom step: the whole file is replaced by rename, outside any commit
Restoring == pc = "idle" /\ pc' = "idle" /\ lastOp'.op = "RestoreFrom"
NodeOf(id) ==
    IF id \in DOMAIN storage.nodeCache THEN storage.nodeCache[id]
    ELSE readNode(Mem(storage, file), id).node

Kids(n) == IF n.nodeType = InternalNode
           THEN {n.children[i] : i \in 1..Len(n.children)} ELSE {}

KeysOf(n) == {n.items[i].Key : i \in 1..Len(n.items)}

RECURSIVE TreeFrom(_, _)
TreeFrom(ids, fuel) ==
    Bind([more \in {ids \cup UNION {Kids(NodeOf(i)) : i \in ids}} |->
    IF fuel = 0 \/ more = ids THEN ids ELSE TreeFrom(more, fuel - 1)])

\* the ids of the nodes reachable from the current root
Tree == TreeFrom({storage.rootNodeID}, MaxDepth)

Leaves == {id \in Tree : NodeOf(id).nodeType = LeafNode}

\* the keys stored in the leaves below (and in) the node id
RECURSIVE SubtreeKeys(_, _)
SubtreeKeys(id, fuel) ==
    Bind([n \in {NodeOf(id)} |->
    IF n.nodeType = LeafNode THEN KeysOf(n)
       ELSE IF fuel = 0 THEN {}
       ELSE UNION {SubtreeKeys(c, fuel - 1) : c \in Kids(n)}])

\* the lengths of the paths from the node id down to a leaf
RECURSIVE LeafDepths(_, _)
LeafDepths(id, fuel) ==
    Bind([n \in {NodeOf(id)} |->
    IF n.nodeType # InternalNode \/ fuel = 0 THEN {0}
       ELSE UNION {{d + 1 : d \in LeafDepths(c, fuel - 1)} : c \in Kids(n)}])

\* a Put or Delete has just returned nil
AfterSuccess == Idle /\ lastOp.op \in {"Put", "Delete"} /\ lastOp.err = "ok"

Increasing(items) ==
    \A i \in 1..(Len(items) - 1) : items[i].Key < items[i + 1].Key

\* C12: after a successful Put or Delete the keys of every node reachable
\* from the root, separators and leaf items alike, are strictly increasing.
C12_KeysIncreasing ==
    AfterSuccess => \A id \in Tree : Increasing(NodeOf(id).items)

\* C13: after a successful Put or Delete, below every reachable internal
\* node the keys under children[i] are < items[i].Key and >= items[i-1].Key.
C13_SeparatorsBound ==
    AfterSuccess =>
        \A id \in Tree : NodeOf(id).nodeType = InternalNode =>
            \A i \in 1..Len(NodeOf(id).children) :
                \A k \in SubtreeKeys(NodeOf(id).children[i], MaxDepth) :
                    /\ i <= Len(NodeOf(id).items) => k < NodeOf(id).items[i].Key
                    /\ (i >= 2 /\ i - 1 <= Len(NodeOf(id).items))
                          => k >= NodeOf(id).items[i - 1].Key

\* C14: after a successful Put or Delete no key is stored in two of the
\* leaves reachable from the root.
C14_KeyInOneLeaf ==
    AfterSuccess =>
        \A a, b \in Leaves : a # b => KeysOf(NodeOf(a)) \cap KeysOf(NodeOf(b)) = {}

\* C15: after a successful Put or Delete every reachable node other than
\* the root holds at least MinItems = MaxItems / 2 items.
C15_MinFill ==
    AfterSuccess =>
        \A id \in Tree \ {storage.rootNodeID} : Len(NodeOf(id).items) >= wl.maxItems \div 2

\* a three-level tree, after an internal node was split
C16_Witness ==
    /\ AfterSuccess
    /\ LeafDepths(storage.rootNodeID, MaxDepth) = {2}
    /\ Cardinality(Leaves) >= 3

\* C16: after a successful Put or Delete all paths from the root to a leaf
\* have the same length.
C16_UniformDepth ==
    AfterSuccess => Cardinality(LeafDepths(storage.rootNodeID, MaxDepth)) = 1

\* C17: a Put whose key is at most MaxKeySize bytes and whose value is at
\* most MaxValueSize bytes, a Put that replaces the value of an existing key
\* by a longer one included, never fails because a node serialises to more
\* than NodeSize bytes.
C17_PutFitsPage ==
    (/\ Idle /\ lastOp.op = "Put"
     /\ KeyLen(lastOp.key) <= MaxKeySize /\ ValLen(lastOp.value) <= MaxValueSize)
    => lastOp.err # "node size"


\* C18: on an open database, Put with a key longer than MaxKeySize returns
\* ErrKeyTooLarge, Put with a value longer than MaxValueSize (the key within
\* its limit, which is checked first) returns ErrValueTooLarge, and Get or
\* Delete with a key longer than MaxKeySize returns ErrKeyTooLarge; the call
\* begins no transaction, allocates no node id, and leaves the root id, the
\* cache and the file as they were.
C18_LengthErrors ==
    [][/\ (hist' # hist /\ ~isClosed /\ pc = "idle") =>
           Bind([e \in {hist'[Len(hist')]} |->
               /\ KeyLen(e.key) > MaxKeySize =>
                      e.err = "ErrKeyTooLarge" /\ storage' = storage /\ file' = file
               /\ (e.op = "Put" /\ KeyLen(e.key) <= MaxKeySize /\ ValLen(e.value) > MaxValueSize) =>
                      e.err = "ErrValueTooLarge" /\ storage' = storage /\ file' = file])
       /\ (lastOp' # lastOp /\ lastOp'.op = "Get" /\ ~isClosed /\ KeyLen(lastOp'.key) > MaxKeySize) =>
              lastOp'.err = "ErrKeyTooLarge" /\ storage' = storage /\ file' = file]_vars
\* a refused Delete, a refused Put and a refused Get, on a tree that holds keys
C18_Witness ==
    /\ Idle /\ Len(hist) >= 3 /\ ~storage.transaction
    /\ Succeeded(hist[1])
    /\ lastOp.op = "Get" /\ lastOp.err = "ErrKeyTooLarge"
    /\ hist[Len(hist)].op = "Put" /\ hist[Len(hist)].err = "ErrValueTooLarge"
    /\ hist[Len(hist) - 1].op = "Delete" /\ hist[Len(hist) - 1].err = "ErrKeyTooLarge"

\* C19: Delete of a key for which Get returned ErrKeyNotFound returns
\* ErrKeyNotFound, leaves no transaction open, and leaves the root id and
\* the result of every Get as they were before the call.
C19_DeleteAbsent ==
    (/\ Idle /\ lastOp.op = "Delete" /\ lastOp.key \in wl.keys
     /\ before[lastOp.key].err = "ErrKeyNotFound" /\ lastOp.err # "io")
    => /\ lastOp.err = "ErrKeyNotFound"
       /\ ~storage.transaction
       /\ storage.rootNodeID = base.root
       /\ GetAll(storage, file, wl.keys) = before

\* the calls of the DB facade other than Close
Facade == {"Get", "Put", "Delete", "Sync", "Reload", "SnapshotTo", "RestoreFrom"}
\* C20: once Close has returned, every Get, Put, Delete, Sync, Reload,
\* SnapshotTo and RestoreFrom returns "database closed" and leaves the tree
\* (root id, cache, allocator, transaction state) and the file as they were,
\* and another Close returns "database already closed".
C20_ClosedRejects ==
    [][(isClosed /\ isClosed' /\ ~crashed /\ lastOp' # lastOp) =>
          /\ storage' = storage /\ file' = file
          /\ lastOp'.op \in Facade \cup {"Close"}
          /\ lastOp'.op \in Facade => lastOp'.err = "database closed"
          /\ lastOp'.op = "Close" => lastOp'.err = "database already closed"]_vars
\* after Close on a database that holds a key: a refused Put is the last
\* mutation in hist and a refused RestoreFrom the last call
C20_Witness ==
    /\ isClosed /\ ~crashed /\ Len(hist) >= 2 /\ Succeeded(hist[1])
    /\ hist[Len(hist)].op = "Put" /\ hist[Len(hist)].err = "database closed"
    /\ lastOp.op = "RestoreFrom" /\ lastOp.err = "database closed"

\* the node id as the engine held it when the last Put or Delete began
BaseNodeOf(id) ==
    IF id \in DOMAIN base.cache THEN base.cache[id]
    ELSE readNode(Mem(storage, base.file), id).node

\* the last two calls in hist are the same successful Put(k, v), and nothing
\* but Gets came between or after them
PutTwice ==
    /\ Idle /\ Len(hist) >= 2
    /\ lastOp = Done("Put", hist[Len(hist)].key, hist[Len(hist)].value, "ok")
    /\ hist[Len(hist)].op = "Put" /\ hist[Len(hist)].err = "ok"
    /\ hist[Len(hist) - 1] = [hist[Len(hist)] EXCEPT !.had = hist[Len(hist) - 1].had]

\* C21: a successful Put(k, v) directly after a successful Put(k, v) leaves
\* every Get result, the root id, and every node reachable from the root as
\* the first Put left them.
C21_PutTwiceSame ==
    PutTwice =>
        /\ GetAll(storage, file, wl.keys) = before
        /\ storage.rootNodeID = base.root
        /\ \A id \in Tree : NodeOf(id) = BaseNodeOf(id)

\* every call in hist returned nil
AllOk == \A i \in 1..Len(hist) : hist[i].err = "ok"

\* RestoreFrom has just returned nil, given the stream of the last SnapshotTo
Restored ==
    /\ Idle /\ Len(hist) >= 2 /\ AllOk
    /\ lastOp = Done("RestoreFrom", 0, NilValue, "ok")
    /\ hist[Len(hist)].op = "RestoreFrom"

\* C22: after successful calls only, RestoreFrom of the stream S that
\* SnapshotTo wrote, on the engine as it is then or after further Puts and
\* Deletes, leaves the file equal to S and every Get returning what it
\* returned when S was written; root id, next id and free list are those of
\* the header of S, no transaction or dirty node is left, and every cached
\* node is the node read from its page of S.
C22_SnapshotRestore ==
    Restored =>
        /\ file = snap.file
        /\ GetAll(storage, file, wl.keys) = snap.gets
        /\ storage.rootNodeID = snap.file.header.rootNodeID
        /\ storage.nextNodeID = snap.file.header.nextNodeID
        /\ storage.freeNodeIDs = Take(snap.file.header.freeNodeIDs, MaxFreeInHeader)
        /\ ~storage.transaction /\ storage.dirtyNodes = {}
        /\ \A id \in DOMAIN storage.nodeCache :
               storage.nodeCache[id] = readNode(Mem(storage, snap.file), id).node
\* the snapshot was written, then a Put or Delete changed what Get returns,
\* then RestoreFrom returned
C22_Witness ==
    /\ Restored /\ Len(hist) >= 3
    /\ hist[Len(hist) - 2].op = "SnapshotTo"
    /\ Succeeded(hist[Len(hist) - 1])
    /\ after # snap.gets

\* C23: a RestoreFrom on an open database that returns an error before the
\* rename has happened leaves the file as it was; once the rename has
\* happened the file is the stream and every Get returns what an engine
\* opened on the stream returns.
C23_RestoreFailure ==
    [][(hist' # hist /\ ~isClosed /\ pc = "idle" /\ hist'[Len(hist')].op = "RestoreFrom") =>
          IF hist'[Len(hist')].err \in {"file already closed", "temp file", "rename"}
          THEN file' = file
          ELSE /\ file' = snap.file
               /\ GetAll(storage', file', wl.keys) = DiskAll(snap.file, wl.keys)]_vars

\* the Puts of the drain workload built a root over leaves, and then every
\* key they stored was deleted, each Delete returning nil
Drained ==
    /\ Idle /\ wl = Drain /\ Len(hist) = 2 * DrainLoad /\ SuccessOnly
    /\ \A i \in 1..DrainLoad :
          /\ hist[i].op = "Put"
          /\ \E j \in (DrainLoad + 1)..Len(hist) :
                hist[j].op = "Delete" /\ hist[j].key = hist[i].key

\* C24: after a tree of depth >= 2 was built by Puts and every stored key
\* deleted by successful Deletes, the root is a single empty leaf, and the
\* id of the internal root that the last merge emptied is on the free list.
C24_DrainToEmptyLeaf ==
    Drained =>
        /\ NodeOf(storage.rootNodeID).nodeType = LeafNode
        /\ NodeOf(storage.rootNodeID).items = <<>>
        /\ Len(storage.freeNodeIDs) >= 1

\* the leaves that the last Put or Delete created: cached, holding items,
\* and neither cached nor on the file when the call began
NewLeaves ==
    {id \in DOMAIN storage.nodeCache :
        /\ id \notin DOMAIN base.cache /\ id \notin DOMAIN base.file.pages
        /\ storage.nodeCache[id].nodeType = LeafNode
        /\ storage.nodeCache[id].items # <<>>}

\* a Put that split a leaf created two leaves, the clone of the leaf and the
\* new sibling; the sibling holds the upper half of the items
SplitSibling ==
    CHOOSE id \in NewLeaves :
        \A o \in NewLeaves :
            storage.nodeCache[o].items[1].Key <= storage.nodeCache[id].items[1].Key

\* a Put that split a leaf has just returned nil
AfterLeafSplit ==
    AfterSuccess /\ lastOp.op = "Put" /\ Cardinality(NewLeaves) >= 2

\* C25: after a Put that split a leaf, the new sibling is reachable from the
\* committed root, and so is every key stored in it, also when the parent
\* of the leaf was full.
C25_SiblingReachable ==
    AfterLeafSplit =>
        /\ SplitSibling \in Tree
        /\ KeysOf(storage.nodeCache[SplitSibling]) \subseteq SubtreeKeys(storage.rootNodeID, MaxDepth)

\* the keys of a node in stored order, and the same without the key just put
KeySeq(n) == [i \in 1..Len(n.items) |-> n.items[i].Key]

OldKeys(n) == SelectSeq(KeySeq(n), LAMBDA k : k # lastOp.key)

\* parent p holds, at child positions i and i + 1, a left leaf and the new
\* sibling that together are the halves of the leaf that was split
HalvesAt(p, i) ==
    LET left == NodeOf(NodeOf(p).children[i])
        right == NodeOf(SplitSibling)
        old == OldKeys(left) \o OldKeys(right)
        mid == Len(old) \div 2
    IN  /\ NodeOf(p).children[i + 1] = SplitSibling
        /\ left.nodeType = LeafNode
        /\ OldKeys(left) = SubSeq(old, 1, mid)
        /\ OldKeys(right) = SubSeq(old, mid + 1, Len(old))
        /\ Increasing(left.items \o right.items)
        /\ NodeOf(p).items[i].Key = right.items[1].Key

\* C26: after a Put that split a leaf, the parent (or the new root)
\* references a left leaf with the lower half items[0..mid) and the freshly
\* allocated right leaf with items[mid..n), mid = n/2, the new item in the
\* half whose range contains it, and the separator between them is the
\* first key of the right leaf.
C26_LeafSplitHalves ==
    AfterLeafSplit =>
        \E p \in Tree :
            /\ NodeOf(p).nodeType = InternalNode
            /\ \E i \in 1..Len(NodeOf(p).items) :
                    i + 1 <= Len(NodeOf(p).children) /\ HalvesAt(p, i)

\* an internal node with one more child id than items and a matching count
ChildrenMatch(n) ==
    n.nodeType = InternalNode =>
        /\ Len(n.children) = Len(n.items) + 1
        /\ n.count = Len(n.items)

\* the node id as DeserializeNode returns it from its page of the file
PageNode(id) == readNode(Mem(storage, file), id)

\* C27: after any sequence of Puts and Deletes, every internal node reachable
\* from the committed root has len(items) + 1 child ids and count =
\* len(items), as held in the cache and as read back from its page.
C27_ChildrenMatchItems ==
    AfterSuccess =>
        \A id \in Tree :
            /\ id \in DOMAIN storage.nodeCache => ChildrenMatch(storage.nodeCache[id])
            /\ PageNode(id).err = "ok" /\ ChildrenMatch(PageNode(id).node)

\* C28: after a successful Put or Delete the root stores parent id 0 and
\* every other reachable node stores the id of the internal node whose
\* child vector contains it.
C28_ParentPointers ==
    AfterSuccess =>
        /\ NodeOf(storage.rootNodeID).parent = 0
        /\ \A p \in Tree : \A c \in Kids(NodeOf(p)) : NodeOf(c).parent = p

\* C29: for every node the size estimate used by the pre-split check is at
\* least the number of bytes Serialize produces before padding, so a node
\* that the check accepts serialises without error.
C29_EstimateCoversSerialize ==
    \A id \in DOMAIN storage.nodeCache :
        /\ estimateNodeSize(storage.nodeCache[id], FALSE, NoItem, -1)
               >= SerializedSize(storage.nodeCache[id])
        /\ estimateNodeSize(storage.nodeCache[id], FALSE, NoItem, -1) <= NodeSize
               => Serialize(storage.nodeCache[id]).err = "ok"

\* the descent of the last Delete through the tree as it was when the call
\* began: the leaf the key routes to, its parent, and its 0-based position
RECURSIVE BaseDescend(_, _, _, _)
BaseDescend(par, pos, id, fuel) ==
    IF fuel = 0 \/ BaseNodeOf(id).nodeType = LeafNode
    THEN [parent |-> par, pos |-> pos, leaf |-> id]
    ELSE LET n == BaseNodeOf(id)
             c == FindChildPos(n, lastOp.key)
         IN IF c + 1 > Len(n.children) THEN [parent |-> par, pos |-> pos, leaf |-> id]
            ELSE BaseDescend(id, c, n.children[c + 1], fuel - 1)

DeletedAt == BaseDescend(0, 0, base.root, MaxDepth)

\* the left sibling of that leaf, as it was when the call began
BaseLeft == BaseNodeOf(BaseNodeOf(DeletedAt.parent).children[DeletedAt.pos])

\* the Delete that just returned nil took its key from a non-root leaf that
\* fell below MinItems, and the left sibling held more than MinItems items
UnderflowRichLeft ==
    /\ AfterSuccess /\ lastOp.op = "Delete"
    /\ DeletedAt.parent # 0 /\ DeletedAt.pos >= 1
    /\ lastOp.key \in KeysOf(BaseNodeOf(DeletedAt.leaf))
    /\ Len(BaseNodeOf(DeletedAt.leaf).items) - 1 < MinItems(wl)
    /\ BaseLeft.nodeType = LeafNode
    /\ Len(BaseLeft.items) > MinItems(wl)

\* parent p holds at child positions i and i + 1 the left sibling without
\* its last item and the leaf with that item in front, the separator
\* between them being that item's key
BorrowedAt(p, i) ==
    LET left == NodeOf(NodeOf(p).children[i])
        leaf == NodeOf(NodeOf(p).children[i + 1])
        lent == KeySeq(BaseLeft)
        kept == OldKeys(BaseNodeOf(DeletedAt.leaf))
    IN  /\ KeySeq(left) = SubSeq(lent, 1, Len(lent) - 1)
        /\ KeySeq(leaf) = <<lent[Len(lent)]>> \o kept
        /\ NodeOf(p).items[i].Key = lent[Len(lent)]

\* C30: when a Delete leaves a non-root leaf with fewer than MinItems items
\* and its left sibling holds more than MinItems items, the committed tree
\* holds the left sibling without its rightmost item, the leaf with that
\* item in front, and the leaf's new first key as the separator between
\* them.
C30_BorrowFromLeft ==
    UnderflowRichLeft =>
        \E p \in Tree :
            /\ NodeOf(p).nodeType = InternalNode
            /\ \E i \in 1..Len(NodeOf(p).items) :
                    i + 1 <= Len(NodeOf(p).children) /\ BorrowedAt(p, i)

(***************************************************************************)
(* The NodePool on its own: a fresh pool, then Allocate and Free in any     *)
(* order, Free being given 0 or an id that Allocate returned before.  The   *)
(* pool is the nextNodeID and freeNodeIDs of storage; hist records the      *)
(* calls, the id in the key field.                                          *)
(***************************************************************************)
Pool == Workload(0, {1}, MaxPoolOps, 0, MaxItems, {1}, 1)

InitPool ==
    /\ wl = Pool
    /\ file = EmptyFile
    /\ storage = NewStorage
    /\ isClosed = FALSE
    /\ crashed = FALSE
    /\ pc = "idle"
    /\ cur = NoOp
    /\ faults = 0
    /\ reopens = 0
    /\ gets = 0
    /\ readers = [t \in Readers |-> IdleReader]
    /\ lastOp = NoOp
    /\ hist = <<>>
    /\ before = <<>>
    /\ after = <<>>
    /\ base = [cache |-> EmptyCache, file |-> EmptyFile, root |-> 0]
    /\ snap = NoSnapshot

\* the ids Allocate has returned so far
Allocated == {hist[i].key : i \in {j \in 1..Len(hist) : hist[j].op = "Allocate"}}

PoolCall(op, id, m) ==
    /\ Len(hist) < wl.ops
    /\ storage' = Sto(m)
    /\ lastOp' = Done(op, id, NilValue, "ok")
    /\ hist' = Append(hist, Event(op, id, NilValue, "ok", id \in Allocated))
    /\ UNCHANGED <<file, isClosed, crashed, pc, cur, wl, faults, reopens, gets, readers,
                    before, after, base, snap>>

AllocateCall ==
    PoolCall("Allocate", Allocate(Mem(storage, file)).id, Allocate(Mem(storage, file)).m)

FreeCall(id) == PoolCall("Free", id, Free(Mem(storage, file), id))

NextPool ==
    \/ AllocateCall
    \/ \E id \in Allocated \cup {0} : FreeCall(id)

SpecPool == InitPool /\ [][NextPool]_vars

\* the last entry of the free list
LastFree == storage.freeNodeIDs[Len(storage.freeNodeIDs)]

\* C31: Allocate returns the most recently freed id when the free list is
\* not empty, and otherwise nextNodeID, which it increments; Free(0) changes
\* nothing and Free(id) appends id; Allocate never returns 0.
C31_PoolAllocateFree ==
    [][/\ (hist' # hist /\ lastOp'.op = "Allocate") =>
             /\ lastOp'.key # 0
             /\ IF storage.freeNodeIDs # <<>>
                THEN /\ lastOp'.key = LastFree
                     /\ storage'.freeNodeIDs = SubSeq(storage.freeNodeIDs, 1, Len(storage.freeNodeIDs) - 1)
                     /\ storage'.nextNodeID = storage.nextNodeID
                ELSE /\ lastOp'.key = storage.nextNodeID
                     /\ storage'.nextNodeID = storage.nextNodeID + 1
                     /\ storage'.freeNodeIDs = <<>>
       /\ (hist' # hist /\ lastOp'.op = "Free") =>
             IF lastOp'.key = 0 THEN storage' = storage
             ELSE /\ storage'.freeNodeIDs = Append(storage.freeNodeIDs, lastOp'.key)
                  /\ storage'.nextNodeID = storage.nextNodeID]_vars

\* two different ids were freed, then Free(0), then Allocate returned the
\* one freed last, and the other is still on the free list
C31_Witness ==
    /\ Len(hist) >= 4
    /\ hist[Len(hist)].op = "Allocate"
    /\ hist[Len(hist) - 1].op = "Free" /\ hist[Len(hist) - 1].key = 0
    /\ hist[Len(hist) - 2].op = "Free" /\ hist[Len(hist) - 2].key = hist[Len(hist)].key
    /\ hist[Len(hist) - 3].op = "Free" /\ hist[Len(hist) - 3].key # hist[Len(hist)].key
    /\ storage.freeNodeIDs = <<hist[Len(hist) - 3].key>>

(***************************************************************************)
(* The header on its own: a Storage with some root id, next id and free     *)
(* list, of which writeHeader writes the header page and readHeader reads   *)
(* it back into a fresh Storage.                                            *)
(***************************************************************************)
\* free-list lengths around the number of ids the header page holds
HeaderLens ==
    0..HeaderOver \cup (MaxFreeInHeader - 1)..(MaxFreeInHeader + HeaderOver)

InitHeader ==
    /\ wl = Pool
    /\ file = EmptyFile
    /\ \E root \in 0..NumHeaderIDs, next \in 1..NumHeaderIDs, n \in HeaderLens :
          storage = [NewStorage EXCEPT !.rootNodeID = root,
                                       !.nextNodeID = next + n,
                                       !.freeNodeIDs = [i \in 1..n |-> n + 1 - i]]
    /\ isClosed = FALSE
    /\ crashed = FALSE
    /\ pc = "idle"
    /\ cur = NoOp
    /\ faults = 0
    /\ reopens = 0
    /\ gets = 0
    /\ readers = [t \in Readers |-> IdleReader]
    /\ lastOp = NoOp
    /\ hist = <<>>
    /\ before = NewStorage
    /\ after = <<>>
    /\ base = [cache |-> EmptyCache, file |-> EmptyFile, root |-> 0]
    /\ snap = NoSnapshot

WriteHeaderCall ==
    /\ lastOp.op = "none"
    /\ file' = writeHeader(Mem(storage, file)).file
    /\ lastOp' = Done("writeHeader", 0, NilValue, "ok")
    /\ UNCHANGED <<storage, isClosed, crashed, pc, cur, wl, faults, reopens, gets, readers,
                    hist, before, after, base, snap>>

\* before keeps the Storage whose header was written
ReadHeaderCall ==
    /\ lastOp.op = "writeHeader"
    /\ storage' = readHeader(file)
    /\ before' = storage
    /\ lastOp' = Done("readHeader", 0, NilValue, "ok")
    /\ UNCHANGED <<file, isClosed, crashed, pc, cur, wl, faults, reopens, gets, readers,
                    hist, after, base, snap>>

NextHeader == WriteHeaderCall \/ ReadHeaderCall

SpecHeader == InitHeader /\ [][NextHeader]_vars

\* bytes of the header before padding: magic 4, version 4, root 8, next 8,
\* count 4, and 8 for every free id
HeaderBytes(h) == 28 + 8 * Len(h.freeNodeIDs)

C33_OtherKeysUnchanged ==
    AfterSuccess =>
        \A k \in wl.keys \ {lastOp.key} : Now(k) = before[k]

\* for every key, the child position FindChildPos computes in the internal
\* node n lies inside n.children and the id there is not 0
ChildInRange(n) ==
    n.nodeType = InternalNode =>
        \A k \in wl.keys :
            /\ FindChildPos(n, k) + 1 <= Len(n.children)
            /\ n.children[FindChildPos(n, k) + 1] # 0

\* C34: for every internal node reachable from the committed root, as held
\* in the cache and as read from its page, and for every key, the child
\* position FindChildPos computes lies inside the child vector and the
\* child id found there is not 0.
C34_ChildInRange ==
    AfterSuccess =>
        \A id \in Tree :
            /\ id \in DOMAIN storage.nodeCache => ChildInRange(storage.nodeCache[id])
            /\ PageNode(id).err = "ok" => ChildInRange(PageNode(id).node)

\* the cached node id and the node deserialised from its page agree in
\* items, children, count and parent
CacheMatchesPage(id) ==
    /\ PageNode(id).err = "ok"
    /\ storage.nodeCache[id].items = PageNode(id).node.items
    /\ storage.nodeCache[id].children = PageNode(id).node.children
    /\ storage.nodeCache[id].count = PageNode(id).node.count
    /\ storage.nodeCache[id].parent = PageNode(id).node.parent

\* C35: whenever no transaction is open, every cached node reachable from
\* the current root equals, in items, children, count and parent, the node
\* deserialised from its page of the file.
C35_CacheMatchesFile ==
    (Idle /\ ~storage.transaction) =>
        \A id \in Tree \cap DOMAIN storage.nodeCache : CacheMatchesPage(id)

\* C36: a RestoreFrom on an open database with an open tree that returns an
\* error before the rename leaves every Get result as it was before the
\* call and leaves the tree open, so that Put and Delete are still
\* accepted.
C36_RestoreErrorKeepsEngine ==
    [][(/\ hist' # hist /\ ~isClosed /\ pc = "idle" /\ ~storage.fileClosed
        /\ hist'[Len(hist')].op = "RestoreFrom"
        /\ hist'[Len(hist')].err \in {"temp file", "rename"}) =>
          /\ GetAll(storage', file', wl.keys) = GetAll(storage, file, wl.keys)
          /\ ~storage'.fileClosed
          /\ ~isClosed']_vars

\* C37: a Get leaves the root id, the allocator (next id and free list),
\* the transaction flag, the dirty set and the file as they were; the
\* cache keeps every node it held and gains only nodes as read from their
\* pages.
C37_GetFrame ==
    [][gets' # gets =>
          /\ file' = file
          /\ storage'.rootNodeID = storage.rootNodeID
          /\ storage'.nextNodeID = storage.nextNodeID
          /\ storage'.freeNodeIDs = storage.freeNodeIDs
          /\ storage'.transaction = storage.transaction
          /\ storage'.dirtyNodes = storage.dirtyNodes
          /\ DOMAIN storage.nodeCache \subseteq DOMAIN storage'.nodeCache
          /\ \A id \in DOMAIN storage'.nodeCache :
                storage'.nodeCache[id] =
                    IF id \in DOMAIN storage.nodeCache THEN storage.nodeCache[id]
                    ELSE readNode(Mem(storage, file), id).node]_vars

\* after a reopen a Get has read an internal node and a leaf into the cache
C37_Witness ==
    /\ Idle /\ gets >= 1 /\ reopens >= 1
    /\ \E id \in DOMAIN storage.nodeCache : storage.nodeCache[id].nodeType = InternalNode
    /\ \E id \in DOMAIN storage.nodeCache : storage.nodeCache[id].nodeType = LeafNode

(***************************************************************************)
(* Locks.  db.mu, t.mu and s.mu are sync.RWMutex, p.mu is a sync.Mutex;     *)
(* every method takes its lock on entry and releases it with defer.  A      *)
(* thread is [call, held, want, ops, ret]: the DB method it is in, the      *)
(* locks it holds innermost last, the lock it is blocked on, the Storage    *)
(* and NodePool calls made so far, and whether it is returning.  Threads    *)
(* are kept in readers.  Lock first takes the mutex that serialises the     *)
(* writers (want changes from W to A, announced), which it keeps until      *)
(* Unlock, and then waits for the readers to leave; RLock waits while a     *)
(* writer is announced or holds the lock.                                   *)
(***************************************************************************)
Threads == 1..NumThreads

IdleThread == [call |-> "none", held |-> <<>>, want |-> <<>>, ops |-> 0, ret |-> FALSE]

LockCalls == {"Get", "Put", "Delete", "Sync", "SnapshotTo", "RestoreFrom", "Close"}

\* db.mu, t.mu, s.mu, p.mu in the order of the call chain
LockRank(l) == CASE l = "db" -> 1 [] l = "t" -> 2 [] l = "s" -> 3 [] l = "p" -> 4

\* DB.Get and BTree.Get take their lock shared, everything else exclusively
CallMode(c) == IF c = "Get" THEN "R" ELSE "W"

\* Storage.GetNode takes s.mu shared; BeginTransaction, PutNode, CloneNode,
\* SetRootNode, DeleteNode, CommitTransaction, Sync and Close exclusively
StorageModes(c) ==
    IF c = "Get" THEN {"R"} ELSE IF c \in {"Put", "Delete"} THEN {"R", "W"} ELSE {"W"}

\* the locks the call c may ask for while top is the innermost lock it holds
NestedLocksRelock(c, top) ==
    IF top[1] = "db" THEN {<<"t", CallMode(c)>>}
    ELSE IF top[1] = "t"
    THEN {<<"s", m>> : m \in StorageModes(c)} \cup (IF c = "Put" THEN {<<"p", "W">>} ELSE {})
    ELSE IF top = <<"s", "W">> THEN {<<"s", "W">>}
    ELSE {}

\* under db.mu the BTree method; under t.mu the Storage methods, and for Put
\* nodePool.Allocate called by the tree itself; under s.mu held exclusively
\* by Put or Delete the NodePool (Allocate, Free, Stats)
NestedLocks(c, top) ==
    IF top[1] = "db" THEN {<<"t", CallMode(c)>>}
    ELSE IF top[1] = "t"
    THEN {<<"s", m>> : m \in StorageModes(c)} \cup (IF c = "Put" THEN {<<"p", "W">>} ELSE {})
    ELSE IF top = <<"s", "W">> /\ c \in {"Put", "Delete"} THEN {<<"p", "W">>}
    ELSE {}

Top(t) == readers[t].held[Len(readers[t].held)]

HeldIn(l, mode) ==
    \E t \in Threads : \E i \in 1..Len(readers[t].held) : readers[t].held[i] = <<l, mode>>

Announced(l) == \E t \in Threads : readers[t].want = <<l, "A">>

CanAcquire(lk) ==
    IF lk[2] = "A" THEN ~HeldIn(lk[1], "R")
    ELSE lk[2] = "R" /\ ~HeldIn(lk[1], "W") /\ ~Announced(lk[1])

InitLocks ==
    /\ wl = Pool
    /\ file = EmptyFile
    /\ storage = NewStorage
    /\ isClosed = FALSE
    /\ crashed = FALSE
    /\ pc = "idle"
    /\ cur = NoOp
    /\ faults = 0
    /\ reopens = 0
    /\ gets = 0
    /\ readers = [t \in Threads |-> IdleThread]
    /\ lastOp = NoOp
    /\ hist = <<>>
    /\ before = <<>>
    /\ after = <<>>
    /\ base = [cache |-> EmptyCache, file |-> EmptyFile, root |-> 0]
    /\ snap = NoSnapshot

LockFrame ==
    UNCHANGED <<file, storage, crashed, pc, cur, wl, faults, reopens, gets, lastOp, hist,
                before, after, base, snap>>

\* the thread calls a DB method, which calls db.mu.Lock or db.mu.RLock
LockCall(t, c) ==
    /\ readers[t].call = "none"
    /\ readers' = [readers EXCEPT ![t] = [@ EXCEPT !.call = c, !.want = <<"db", CallMode(c)>>]]
    /\ UNCHANGED isClosed /\ LockFrame

\* the thread goes on to the next method down, which calls Lock or RLock;
\* DB.Close sets isClosed before it calls BTree.Close
LockRequest(t, lk) ==
    /\ readers[t].held # <<>> /\ readers[t].want = <<>> /\ ~readers[t].ret
    /\ lk \in NestedLocks(readers[t].call, Top(t))
    /\ IF lk[1] = "t"
       THEN /\ ~isClosed
            /\ isClosed' = (readers[t].call = "Close")
            /\ readers' = [readers EXCEPT ![t] = [@ EXCEPT !.want = lk]]
       ELSE /\ readers[t].ops < MaxLockOps
            /\ readers' = [readers EXCEPT ![t] = [@ EXCEPT !.want = lk, !.ops = @ + 1]]
            /\ UNCHANGED isClosed
    /\ LockFrame

\* Lock gets the writers' mutex: no other writer is announced or inside
LockAnnounce(t) ==
    /\ readers[t].want # <<>> /\ readers[t].want[2] = "W"
    /\ ~Announced(readers[t].want[1]) /\ ~HeldIn(readers[t].want[1], "W")
    /\ readers' = [readers EXCEPT ![t] = [@ EXCEPT !.want = <<readers[t].want[1], "A">>]]
    /\ UNCHANGED isClosed /\ LockFrame

\* Lock or RLock returns
LockAcquire(t) ==
    /\ readers[t].want # <<>>
    /\ CanAcquire(readers[t].want)
    /\ readers' = [readers EXCEPT ![t] =
                      [@ EXCEPT !.held = Append(@, <<readers[t].want[1],
                                                     IF readers[t].want[2] = "R" THEN "R" ELSE "W">>),
                                !.want = <<>>]]
    /\ UNCHANGED isClosed /\ LockFrame

\* the method returns: under db.mu alone because the database is closed or
\* the key or value is too long, under t.mu when the BTree method is done
\* or has failed
LockReturn(t) ==
    /\ readers[t].held # <<>> /\ readers[t].want = <<>> /\ ~readers[t].ret
    /\ \/ Top(t)[1] = "t"
       \/ Top(t)[1] = "db" /\ (isClosed \/ readers[t].call \in {"Get", "Put", "Delete"})
    /\ readers' = [readers EXCEPT ![t] = [@ EXCEPT !.ret = TRUE]]
    /\ UNCHANGED isClosed /\ LockFrame

\* a deferred Unlock or RUnlock runs: of s.mu and p.mu when the Storage or
\* NodePool method returns, of t.mu and db.mu when the call returns
LockRelease(t) ==
    /\ readers[t].held # <<>> /\ readers[t].want = <<>>
    /\ Top(t)[1] \in {"s", "p"} \/ readers[t].ret
    /\ readers' = [readers EXCEPT ![t] =
                      IF Len(@.held) = 1 THEN IdleThread
                      ELSE [@ EXCEPT !.held = SubSeq(@, 1, Len(@) - 1)]]
    /\ UNCHANGED isClosed /\ LockFrame

LockProgress(t) ==
    \/ \E lk \in {"t", "s", "p"} \X {"R", "W"} : LockRequest(t, lk)
    \/ LockAnnounce(t)
    \/ LockAcquire(t)
    \/ LockReturn(t)
    \/ LockRelease(t)

NextLocks ==
    \E t \in Threads :
        \/ \E c \in LockCalls : LockCall(t, c)
        \/ \E lk \in {"t", "s", "p"} \X {"R", "W"} : LockRequest(t, lk)
        \/ LockAnnounce(t)
        \/ LockAcquire(t)
        \/ LockReturn(t)
        \/ LockRelease(t)

\* the Go scheduler runs every runnable goroutine, and a goroutine blocked
\* in Lock or RLock gets the lock once it keeps becoming free
SpecLocks ==
    InitLocks /\ [][NextLocks]_vars /\ \A t \in Threads : SF_vars(LockProgress(t))

\* the locks a thread holds or waits for, in the order it took them
LockSeq(t) ==
    readers[t].held \o (IF readers[t].want = <<>> THEN <<>> ELSE <<readers[t].want>>)

LockOrder ==
    \A t \in Threads : \A i \in 1..(Len(LockSeq(t)) - 1) :
        LockRank(LockSeq(t)[i][1]) < LockRank(LockSeq(t)[i + 1][1])

\* C38: every thread takes its locks in the order db.mu, t.mu, s.mu, p.mu,
\* holds no lock once its call has returned, and every call of Get, Put,
\* Delete, Sync, SnapshotTo, RestoreFrom and Close eventually returns.
C38_LocksOrderedNoDeadlock ==
    /\ []LockOrder
    /\ [](\A t \in Threads : readers[t].call = "none" => readers[t].held = <<>>)
    /\ \A t \in Threads : (readers[t].call # "none") ~> (readers[t].call = "none")

\* one thread is inside Storage.GetNode for a Get, holding the three locks
\* shared, a second is announced in db.mu.Lock, and a third is blocked in
\* db.mu.RLock behind it
C38_Witness ==
    \E t1, t2, t3 \in Threads :
        /\ readers[t1].call = "Get" /\ Len(readers[t1].held) = 3
        /\ readers[t2].want = <<"db", "A">>
        /\ readers[t3].want = <<"db", "R">>

(***************************************************************************)
(* Two engines fed the same commands                                       *)
(***************************************************************************)
\* the orders in which the loop of CommitTransaction can meet the dirty
\* nodes, as far as they show: the nodes written before it stops and the
\* node it stops at (0: it stops at none)
CommitOrders(m) ==
    IF Unwritable(Sto(m)) = {} THEN {<<m.dirtyNodes, 0>>}
    ELSE (SUBSET (m.dirtyNodes \ Unwritable(Sto(m)))) \X Unwritable(Sto(m))

\* a CommitTransaction that, when a write fails, drops the dirty nodes from
\* the cache and ends the transaction, the root left as the call set it
CommitTransactionDropping(m, order) ==
    IF Unwritable(Sto(m)) = {}
    THEN [err |-> "ok",
          m |-> [writeHeader([m EXCEPT !.file = WritePages(m.file, Sto(m), m.dirtyNodes)])
                    EXCEPT !.transaction = FALSE, !.dirtyNodes = {}]]
    ELSE [err |-> "node size",
          m |-> [m EXCEPT !.file = WritePages(m.file, Sto(m), order[1]),
                          !.nodeCache = [i \in DOMAIN m.nodeCache \ m.dirtyNodes |->
                                            m.nodeCache[i]],
                          !.transaction = FALSE, !.dirtyNodes = {}]]

\* Storage.CommitTransaction as one step, the file open and its writes
\* succeeding: the dirty nodes are written in the order given, then the
\* header, and the transaction state is reset
CommitTransaction(m, order) ==
    IF Unwritable(Sto(m)) = {}
    THEN [err |-> "ok",
          m |-> [writeHeader([m EXCEPT !.file = WritePages(m.file, Sto(m), m.dirtyNodes)])
                    EXCEPT !.transaction = FALSE, !.dirtyNodes = {}]]
    ELSE [err |-> IF order[2] \notin DOMAIN m.nodeCache
                  THEN "dirty node not found in cache" ELSE "node size",
          m |-> [m EXCEPT !.file = WritePages(m.file, Sto(m), order[1])]]

\* the orders of the commit that ends the call, if it gets there
PreOrders(r) == IF r.commit THEN CommitOrders(r.m) ELSE {<<{}, 0>>}

\* DB.Put and DB.Delete from call to return
Finish(r, order) == IF r.commit THEN CommitTransaction(r.m, order) ELSE [err |-> r.err, m |-> r.m]

\* the second engine: its Storage object and its file
Twin == Mem(base.storage, base.file)

TwinSmall == Workload(0, 1..TwinKeys, MaxTwinOps, 0, MaxItems, {1}, 1)

\* both engines have created their file; the commands are any at all, or
\* those of the loaded workloads, whose first Puts are fixed
InitTwin ==
    LET m == initializeNewFile(Mem(NewStorage, EmptyFile))
    IN /\ wl \in {TwinSmall, Loaded, Sized}
       /\ file = m.file
       /\ storage = Sto(m)
       /\ base = [storage |-> Sto(m), file |-> m.file]
       /\ lastOp = NoOp
       /\ cur = NoOp
       /\ hist = <<>>
       /\ isClosed = FALSE
       /\ crashed = FALSE
       /\ pc = "idle"
       /\ faults = 0
       /\ reopens = 0
       /\ gets = 0
       /\ readers = [t \in Readers |-> IdleReader]
       /\ before = <<>>
       /\ after = <<>>
       /\ snap = NoSnapshot

TwinFrame == UNCHANGED <<isClosed, crashed, pc, wl, faults, reopens, gets, readers, snap>>

\* the command has returned in both engines
TwinApplied(op, key, value, a, b) ==
    /\ CanMutate(key, value)
    /\ storage' = Sto(a.m)
    /\ file' = a.m.file
    /\ base' = [storage |-> Sto(b.m), file |-> b.m.file]
    /\ lastOp' = Done(op, key, value, a.err)
    /\ cur' = Done(op, key, value, b.err)
    /\ hist' = Append(hist, Event(op, key, value, a.err, FALSE))
    /\ before' = <<>>
    /\ after' = <<>>
    /\ TwinFrame

\* FSM.Apply of a Put command on both engines
TwinPut(key, value) ==
    \E oa \in PreOrders(PutPre(Mem(storage, file), key, value, TRUE)),
       ob \in PreOrders(PutPre(Twin, key, value, TRUE)) :
        TwinApplied("Put", key, value,
                    Finish(PutPre(Mem(storage, file), key, value, TRUE), oa),
                    Finish(PutPre(Twin, key, value, TRUE), ob))

\* FSM.Apply of a Delete command on both engines
TwinDelete(key) ==
    /\ ~Loading
    /\ \E oa \in PreOrders(DeletePre(Mem(storage, file), key, TRUE)),
          ob \in PreOrders(DeletePre(Twin, key, TRUE)) :
           TwinApplied("Delete", key, NilValue,
                       Finish(DeletePre(Mem(storage, file), key, TRUE), oa),
                       Finish(DeletePre(Twin, key, TRUE), ob))

\* what a Get returned
Got(key, g) == [key |-> key, err |-> g.err, val |-> g.val]

\* DB.Get of the same key on both engines: the nodes read enter the caches;
\* before and after keep what the first and the second engine returned
TwinGet(key) ==
    /\ ~Loading
    /\ storage' = Sto(Get(Mem(storage, file), key, TRUE).m)
    /\ base' = [base EXCEPT !.storage = Sto(Get(Twin, key, TRUE).m)]
    /\ before' = Got(key, Get(Mem(storage, file), key, TRUE))
    /\ after' = Got(key, Get(Twin, key, TRUE))
    /\ UNCHANGED <<file, lastOp, cur, hist>>
    /\ TwinFrame

NextTwin ==
    \/ \E k \in wl.keys, v \in wl.values : TwinPut(k, v)
    \/ \E k \in wl.keys : TwinDelete(k)
    \/ \E k \in wl.keys : TwinGet(k)

SpecTwin == InitTwin /\ [][NextTwin]_vars

\* C39: two engines that started from empty files and were given the same
\* Put and Delete commands returned the same outcome for the last command,
\* hence for every command, and return the same result for every Get,
\* whatever the order in which each wrote its dirty pages at commit.
C39_SameCommandsSameResults ==
    /\ lastOp = cur
    /\ before = after
    /\ GetAll(storage, file, wl.keys) = GetAll(base.storage, base.file, wl.keys)

\* a commit stopped at a node it could not write, after the two engines had
\* written different dirty pages
C39_Witness ==
    /\ lastOp.err = "node size"
    /\ file.pages # base.file.pages
    /\ before # <<>>

====
